---------------------------- MODULE Spec2Model ----------------------------
(***************************************************************************)
(* wincross: resolution of the project configuration, its profiles and the *)
(* machine-local build configuration into one effective configuration,    *)
(* and the container command built from it.                                *)
(*                                                                         *)
(* Data representation                                                     *)
(*   dict            a function whose DOMAIN is the set of keys present    *)
(*                   (<<>> is the empty dict); d.get(k, x) is Get(d, k, x) *)
(*   env dict        a sequence of [k, v] pairs with distinct keys, in     *)
(*                   insertion order (the order Python iterates them in)   *)
(*   host path       [abs, parts]: pathlib's absolute flag and parts; ".." *)
(*                   is an ordinary part until resolve() collapses it      *)
(*   string          a sequence of tokens.  A literal token t stands for   *)
(*                   the text "/t", a placeholder token "{key}" for the    *)
(*                   replacement field itself, so <<"{state_dir}", "bin">> *)
(*                   is "{state_dir}/bin" and <<"work", "bin">> is         *)
(*                   "/work/bin"; <<>> is the empty string.  Two strings   *)
(*                   are equal iff their token sequences are equal.        *)
(***************************************************************************)
EXTENDS Integers, Sequences, FiniteSets, TLC

(***************************************************************************)
(* Bounds of the model                                                     *)
(***************************************************************************)
\* longest list of entries the project configuration carries in the model
MaxLen == 2
\* longest list of entries the build configuration adds in the model
MaxBuildLen == 1
\* most parts of a host path handed to the path utilities in the model
MaxDepth == 3

(***************************************************************************)
(* Constants of constants.py (imported by config.py, wrappers.py, docker)  *)
(***************************************************************************)
DEFAULT_CONTAINER_ROOT == <<"work", "project">>
STATE_DIRNAME == ".wincross"
DEFAULT_IMAGE == "default-image"
DEFAULT_GENERATOR == "default-generator"
DEFAULT_BUILD_TYPE == "default-build-type"

(***************************************************************************)
(* Generic helpers                                                         *)
(***************************************************************************)
Get(d, k, default) == IF k \in DOMAIN d THEN d[k] ELSE default

Has(d, k) == k \in DOMAIN d

\* {**a, **b} and dict.update: b's value on shared keys
Overlay(a, b) ==
  [k \in (DOMAIN a) \cup (DOMAIN b) |-> IF k \in DOMAIN b THEN b[k] ELSE a[k]]

Without(d, k) == [x \in (DOMAIN d) \ {k} |-> d[x]]

Put(d, k, v) == [x \in (DOMAIN d) \cup {k} |-> IF x = k THEN v ELSE d[x]]

Range(s) == {s[i] : i \in 1..Len(s)}

Min(S) == CHOOSE x \in S : \A y \in S : x <= y

Ok(v) == [ok |-> TRUE, val |-> v]

Fail(kind, detail) == [ok |-> FALSE, err |-> [kind |-> kind, detail |-> detail]]

(***************************************************************************)
(* util.py: paths                                                          *)
(***************************************************************************)
AbsPath(parts) == [abs |-> TRUE, parts |-> parts]

RelPath(parts) == [abs |-> FALSE, parts |-> parts]

\* pathlib's a / b
JoinPath(a, b) == IF b.abs THEN b ELSE [abs |-> a.abs, parts |-> a.parts \o b.parts]

RECURSIVE Collapse(_, _)
Collapse(parts, acc) ==
  IF parts = <<>> THEN acc
  ELSE IF Head(parts) = ".."
       THEN Collapse(Tail(parts),
                     IF acc = <<>> THEN acc ELSE SubSeq(acc, 1, Len(acc) - 1))
       ELSE Collapse(Tail(parts), Append(acc, Head(parts)))

\* Path.resolve() of an absolute path on a filesystem without symlinks
ResolvePath(p) == [abs |-> TRUE, parts |-> Collapse(p.parts, <<>>)]

\* Path.relative_to succeeds: purely lexical, part by part
RelativeToOk(path, root) ==
  /\ path.abs = root.abs
  /\ Len(root.parts) <= Len(path.parts)
  /\ SubSeq(path.parts, 1, Len(root.parts)) = root.parts

RelativeTo(path, root) == SubSeq(path.parts, Len(root.parts) + 1, Len(path.parts))

state_dir(root) == JoinPath(root, RelPath(<<STATE_DIRNAME>>))

is_under_root(path, root) == RelativeToOk(path, root)

to_container_path(host_path, root, container_root) ==
  IF ~is_under_root(host_path, root)
  THEN Fail("PathOutsideRoot", host_path)
  ELSE LET rel == RelativeTo(host_path, root)
       IN  IF rel = <<>> THEN Ok(container_root) ELSE Ok(container_root \o rel)

(***************************************************************************)
(* util.py: merge primitives                                               *)
(***************************************************************************)
EnvKeys(e) == {e[i].k : i \in 1..Len(e)}

EnvGet(e, k) == (CHOOSE i \in 1..Len(e) : e[i].k = k)

EnvVal(e, k) == e[EnvGet(e, k)].v

merge_env(base, override) ==
  [i \in 1..Len(base) |->
      IF base[i].k \in EnvKeys(override)
      THEN [k |-> base[i].k, v |-> EnvVal(override, base[i].k)]
      ELSE base[i]]
  \o SelectSeq(override, LAMBDA e : e.k \notin EnvKeys(base))

\* a merge that puts the override's entries first
merge_lists_override_first(base, override) == override \o base

merge_lists(base, override) == base \o override

\* the argument dicts as the caller sees them after merge_toolchains, had the
\* entries been stored without dict(data): update() then writes through to
\* the project's entries
merge_toolchains_arguments_aliased(project_tc, build_tc) ==
  << [name \in DOMAIN project_tc |->
        IF name \in DOMAIN build_tc
        THEN Overlay(project_tc[name], build_tc[name])
        ELSE project_tc[name]],
     build_tc >>

\* the argument dicts as the caller sees them after merge_toolchains: every
\* entry is copied with dict(data) before it is stored or updated
merge_toolchains_arguments(project_tc, build_tc) == <<project_tc, build_tc>>

\* toolchains merged by name only, the build's entry replacing the project's
merge_toolchains_shallow(project_tc, build_tc) == Overlay(project_tc, build_tc)

merge_toolchains(project_tc, build_tc) ==
  [name \in (DOMAIN project_tc) \cup (DOMAIN build_tc) |->
      IF name \in DOMAIN project_tc
      THEN IF name \in DOMAIN build_tc
           THEN Overlay(project_tc[name], build_tc[name])
           ELSE project_tc[name]
      ELSE build_tc[name]]


(***************************************************************************)
(* config.py: template expansion (str.format over a keyword mapping)       *)
(***************************************************************************)
\* replacement fields the model's strings can carry, with their field names
FieldOf ==
  [t \in {"{project_root}", "{state_dir}", "{build_dir}", "{config_dir}",
          "{bogus}", "{0}"} |->
     CASE t = "{project_root}" -> "project_root"
       [] t = "{state_dir}"    -> "state_dir"
       [] t = "{build_dir}"    -> "build_dir"
       [] t = "{config_dir}"   -> "config_dir"
       [] t = "{bogus}"        -> "bogus"
       [] t = "{0}"            -> "0"]

\* field names that str.format looks up in the positional arguments
PositionalNames == {"0"}

IsField(t) == t \in DOMAIN FieldOf

RECURSIVE Substitute(_, _)
Substitute(value, mapping) ==
  IF value = <<>> THEN <<>>
  ELSE (IF IsField(Head(value)) THEN mapping[FieldOf[Head(value)]]
        ELSE <<Head(value)>>) \o Substitute(Tail(value), mapping)

\* value.format(**mapping): the first field that cannot be looked up raises;
\* only KeyError (a named field) is turned into die("unknown placeholder")
expand_template(value, mapping, context) ==
  LET bad == {i \in 1..Len(value) :
                IsField(value[i]) /\ FieldOf[value[i]] \notin DOMAIN mapping}
  IN  IF bad = {} THEN Ok(Substitute(value, mapping))
      ELSE LET key == FieldOf[value[Min(bad)]]
           IN  IF key \in PositionalNames
               THEN Fail("IndexError", [template |-> value, context |-> context])
               ELSE Fail("PlaceholderUnknown",
                         [key |-> key, template |-> value, context |-> context])

expand_list(values, mapping, context) ==
  LET res(i) == IF values[i] = <<>>
                THEN Fail("EntryNotNonEmptyString", [context |-> context])
                ELSE expand_template(values[i], mapping, context)
      bad == {i \in 1..Len(values) : ~res(i).ok}
  IN  IF bad = {} THEN Ok([i \in 1..Len(values) |-> res(i).val])
      ELSE res(Min(bad))

expand_dict_values(values, mapping, context) ==
  LET res(i) == IF values[i].v = <<>>
                THEN Fail("EntryNotNonEmptyString", [context |-> context])
                ELSE expand_template(values[i].v, mapping, context)
      bad == {i \in 1..Len(values) : ~res(i).ok}
  IN  IF bad = {} THEN Ok([i \in 1..Len(values) |->
                              [k |-> values[i].k, v |-> res(i).val]])
      ELSE res(Min(bad))

(***************************************************************************)
(* wrappers.py: winexe wrapper descriptors                                 *)
(* A wrapper name is the sequence of its path components (Path(name).parts)*)
(***************************************************************************)
\* normalize_winexe_wrappers without the name checks
normalize_winexe_wrappers_any_name(raw, context) ==
  LET check(item) ==
        IF ~Has(item, "exe") \/ item["exe"] = <<>>
        THEN Fail("WrapperExeMissing", [context |-> context])
        ELSE Ok([name |-> Get(item, "name", <<>>), exe |-> item["exe"],
                 msvc_env |-> Get(item, "msvc_env", FALSE)])
      bad == {i \in 1..Len(raw) : ~check(raw[i]).ok}
  IN  IF bad = {} THEN Ok([i \in 1..Len(raw) |-> check(raw[i]).val])
      ELSE check(raw[Min(bad)])

normalize_winexe_wrappers(raw, context) ==
  LET check(item) ==
        IF ~Has(item, "name") \/ item["name"] = <<>>
        THEN Fail("WrapperNameInvalid", [context |-> context])
        ELSE IF Len(item["name"]) # 1 \/ item["name"] = <<".">>
        THEN Fail("WrapperNameInvalid", [context |-> context])
        ELSE IF ~Has(item, "exe") \/ item["exe"] = <<>>
        THEN Fail("WrapperExeMissing", [context |-> context])
        ELSE Ok([name |-> item["name"], exe |-> item["exe"],
                 msvc_env |-> Get(item, "msvc_env", FALSE)])
      bad == {i \in 1..Len(raw) : ~check(raw[i]).ok}
  IN  IF bad = {} THEN Ok([i \in 1..Len(raw) |-> check(raw[i]).val])
      ELSE check(raw[Min(bad)])

\* the two lists concatenated, entries with the same name all kept
merge_winexe_wrappers_concat(project_wrappers, build_wrappers) ==
  project_wrappers \o build_wrappers

RECURSIVE MergeByName(_, _)
MergeByName(wrappers, acc) ==
  IF wrappers = <<>> THEN acc
  ELSE LET w == Head(wrappers)
           at == {i \in 1..Len(acc) : acc[i].name = w.name}
       IN  MergeByName(Tail(wrappers),
                       IF at = {} THEN Append(acc, w)
                       ELSE [acc EXCEPT ![Min(at)] = w])

merge_winexe_wrappers(project_wrappers, build_wrappers) ==
  MergeByName(project_wrappers \o build_wrappers, <<>>)

(***************************************************************************)
(* config.py: project configuration                                        *)
(***************************************************************************)
\* lift data[nested][from] to data[to] even over a flat key already present
Lift_overwrites(data, nested, from, to) ==
  IF Has(data, nested) /\ Has(data[nested], from)
  THEN Overlay(data, [x \in {to} |-> data[nested][from]])
  ELSE data

\* lift data[nested][from] to data[to] unless data[to] is already present
Lift(data, nested, from, to) ==
  IF Has(data, nested) /\ Has(data[nested], from) /\ ~Has(data, to)
  THEN Put(data, to, data[nested][from])
  ELSE data

normalize_project_config(cfg) ==
  LET d1 == Lift(cfg, "cmake", "defaults", "cmake_defaults")
      d2 == Lift(d1, "cmake", "generator", "generator")
      d3 == Lift(d2, "cmake", "build_type", "build_type")
      d4 == Lift(d3, "cmake", "build_dir", "build_dir")
      d5 == Lift(d4, "wincross", "winexe_wrappers", "winexe_wrappers")
      d6 == Lift(d5, "wincross", "winepath_prepend", "winepath_prepend")
      d7 == Lift(d6, "wincross", "bin_aliases", "bin_aliases")
      d8 == Lift(d7, "wincross", "emulator_env", "emulator_env")
  IN  Lift(d8, "path", "prepend", "path_prepend")

\* a profile entry that is not a table is written [not_a_table |-> TRUE]
IsDict(x) == ~Has(x, "not_a_table")

\* the body of select_profile after base.pop("profiles"); profile = ""
\* stands for no profile requested (None or the empty string)
apply_profile(base, profiles, profile) ==
  IF profile = "" THEN Ok(base)
  ELSE IF ~IsDict(Get(profiles, profile, <<>>))
  THEN Fail("ProjectConfigInvalid", [field |-> "profiles"])
  ELSE
    LET override == normalize_project_config(Get(profiles, profile, <<>>))
    IN  Ok([key \in (DOMAIN base) \cup (DOMAIN override) |->
              IF key \notin DOMAIN override THEN base[key]
              ELSE IF key \in {"cmake_defaults", "path_prepend"}
              THEN merge_lists(Get(base, key, <<>>), override[key])
              ELSE IF key = "winexe_wrappers"
              THEN merge_lists(Get(base, key, <<>>), override[key])
              ELSE IF key = "env"
              THEN merge_env(Get(base, key, <<>>), override[key])
              ELSE IF key = "toolchains"
              THEN merge_toolchains(Get(base, key, <<>>), override[key])
              ELSE IF key = "vcpkg"
              THEN Overlay(Get(base, key, <<>>), override[key])
              ELSE override[key]])

\* select_profile that leaves the profiles map in the base
select_profile_keeps_profiles(project_cfg, profile) ==
  LET base == normalize_project_config(project_cfg)
  IN  apply_profile(base, Get(base, "profiles", <<>>), profile)

select_profile(project_cfg, profile) ==
  LET base == normalize_project_config(project_cfg)
  IN  apply_profile(Without(base, "profiles"), Get(base, "profiles", <<>>),
                    profile)

\* validate_project_config without the toolchain host_path check
validate_project_config_skips_toolchains(cfg) ==
  LET wrappers == normalize_winexe_wrappers(Get(cfg, "winexe_wrappers", <<>>),
                                            "project config")
      vcpkg == Get(cfg, "vcpkg", <<>>)
  IN  IF ~wrappers.ok THEN wrappers
      ELSE IF \E key \in {"host_root", "host_binary_cache", "container_root",
                          "container_binary_cache"} : Has(vcpkg, key)
      THEN Fail("ProjectConfigInvalid", [field |-> "vcpkg"])
      ELSE Ok(TRUE)

validate_project_config(cfg) ==
  LET toolchains == Get(cfg, "toolchains", <<>>)
      wrappers == normalize_winexe_wrappers(Get(cfg, "winexe_wrappers", <<>>),
                                            "project config")
      winepath == Get(cfg, "winepath_prepend", <<>>)
      aliases == Get(cfg, "bin_aliases", <<>>)
      emulator_env == Get(cfg, "emulator_env", <<>>)
      vcpkg == Get(cfg, "vcpkg", <<>>)
  IN  IF \E name \in DOMAIN toolchains : Has(toolchains[name], "host_path")
      THEN Fail("ProjectConfigInvalid", [field |-> "toolchains.host_path"])
      ELSE IF ~wrappers.ok THEN wrappers
      ELSE IF \E i \in 1..Len(winepath) : winepath[i] = <<>>
      THEN Fail("ProjectConfigInvalid", [field |-> "winepath_prepend"])
      ELSE IF \E i \in 1..Len(aliases) : aliases[i] = <<>>
      THEN Fail("ProjectConfigInvalid", [field |-> "bin_aliases"])
      ELSE IF \E i \in 1..Len(emulator_env) : emulator_env[i].v = <<>>
      THEN Fail("ProjectConfigInvalid", [field |-> "emulator_env"])
      ELSE IF \E key \in {"host_root", "host_binary_cache", "container_root",
                          "container_binary_cache"} : Has(vcpkg, key)
      THEN Fail("ProjectConfigInvalid", [field |-> "vcpkg"])
      ELSE Ok(TRUE)

(***************************************************************************)
(* config.py: resolve_effective_config                                     *)
(***************************************************************************)
\* a.get(key) or b.get(key) or default, for strings ("" is falsy)
StrOr(a, b, key, default) ==
  IF Get(a, key, "") # "" THEN a[key]
  ELSE IF Get(b, key, "") # "" THEN b[key]
  ELSE default

\* a.get(key) or b.get(key) or [], for lists
ListOr(a, b, key) ==
  IF Get(a, key, <<>>) # <<>> THEN a[key] ELSE Get(b, key, <<>>)

Parent(path) ==
  [abs |-> path.abs, parts |-> SubSeq(path.parts, 1, Len(path.parts) - 1)]

\* build_cfg.get("profile") or project_cfg.get("default_profile")
active_profile(raw_project_cfg, build_cfg) ==
  IF Get(build_cfg, "profile", "") # "" THEN build_cfg["profile"]
  ELSE Get(raw_project_cfg, "default_profile", "")

wrapper_dir == DEFAULT_CONTAINER_ROOT \o <<STATE_DIRNAME, "bin">>

\* the locals after the merges of project_cfg (profile selected and
\* validated) and build_cfg, before the wrapper-dir step
merge_step(project_cfg, build_cfg) ==
  LET winexe_project ==
        normalize_winexe_wrappers(Get(project_cfg, "winexe_wrappers", <<>>),
                                  "project config")
      winexe_build ==
        normalize_winexe_wrappers(Get(build_cfg, "winexe_wrappers", <<>>),
                                  "build config")
  IN  IF ~winexe_project.ok THEN winexe_project
      ELSE IF ~winexe_build.ok THEN winexe_build
      ELSE Ok([
        toolchains |-> merge_toolchains(Get(project_cfg, "toolchains", <<>>),
                                        Get(build_cfg, "toolchains", <<>>)),
        cmake_defaults |-> merge_lists(Get(project_cfg, "cmake_defaults", <<>>),
                                       Get(build_cfg, "cmake_defaults", <<>>)),
        path_prepend |-> merge_lists(Get(project_cfg, "path_prepend", <<>>),
                                     Get(build_cfg, "path_prepend", <<>>)),
        env |-> merge_env(Get(project_cfg, "env", <<>>),
                          Get(build_cfg, "env", <<>>)),
        emulator_env |-> merge_env(Get(project_cfg, "emulator_env", <<>>),
                                   Get(build_cfg, "emulator_env", <<>>)),
        winepath_prepend |->
          merge_lists(Get(project_cfg, "winepath_prepend", <<>>),
                      Get(build_cfg, "winepath_prepend", <<>>)),
        bin_aliases |-> merge_lists(Get(project_cfg, "bin_aliases", <<>>),
                                    Get(build_cfg, "bin_aliases", <<>>)),
        winexe_wrappers |-> merge_winexe_wrappers(winexe_project.val,
                                                  winexe_build.val)])

\* if winexe_wrappers: move or put wrapper_dir at the front of path_prepend
wrapper_dir_step(path_prepend, winexe_wrappers) ==
  IF winexe_wrappers = <<>> THEN path_prepend
  ELSE IF wrapper_dir \in Range(path_prepend)
  THEN <<wrapper_dir>> \o SelectSeq(path_prepend, LAMBDA p : p # wrapper_dir)
  ELSE <<wrapper_dir>> \o path_prepend

\* enabled as soon as either side enables it
vcpkg_enabled_either(vcpkg_project, vcpkg_build) ==
  Get(vcpkg_build, "enabled", FALSE) \/ Get(vcpkg_project, "enabled", FALSE)

vcpkg_enabled(vcpkg_project, vcpkg_build) ==
  Get(vcpkg_build, "enabled", Get(vcpkg_project, "enabled", FALSE))

\* build_cfg's build_dir, else project_cfg's, else <state_dir>/build-windows;
\* a relative value is joined to root and resolved
build_dir_step(project_cfg, build_cfg, root) ==
  LET build_dir ==
        IF Has(build_cfg, "build_dir") THEN build_cfg["build_dir"]
        ELSE IF Has(project_cfg, "build_dir") THEN project_cfg["build_dir"]
        ELSE JoinPath(state_dir(root), RelPath(<<"build-windows">>))
  IN  IF build_dir.abs THEN build_dir ELSE ResolvePath(JoinPath(root, build_dir))

\* the vcpkg block of the effective configuration
vcpkg_step(vcpkg_project, vcpkg_build, root) ==
  LET base == [
        enabled |-> vcpkg_enabled(vcpkg_project, vcpkg_build),
        triplet |-> StrOr(vcpkg_build, vcpkg_project, "triplet", "x64-windows"),
        packages |-> ListOr(vcpkg_build, vcpkg_project, "packages"),
        overlay_triplets |->
          ListOr(vcpkg_build, vcpkg_project, "overlay_triplets"),
        fixup_z3_dll |-> Get(vcpkg_build, "fixup_z3_dll",
                             Get(vcpkg_project, "fixup_z3_dll", FALSE))]
  IN  IF ~base.enabled THEN Ok(base)
      ELSE IF ~Has(vcpkg_build, "host_root")
              \/ ~Has(vcpkg_build, "host_binary_cache")
      THEN Fail("VcpkgHostPathsMissing", [field |-> "vcpkg"])
      ELSE
        LET croot == to_container_path(vcpkg_build["host_root"], root,
                                       DEFAULT_CONTAINER_ROOT)
            ccache == to_container_path(vcpkg_build["host_binary_cache"], root,
                                        DEFAULT_CONTAINER_ROOT)
        IN  IF ~croot.ok THEN croot
            ELSE IF ~ccache.ok THEN ccache
            ELSE Ok(Overlay(base, [
                   host_root |-> vcpkg_build["host_root"],
                   host_binary_cache |-> vcpkg_build["host_binary_cache"],
                   container_root |-> croot.val,
                   container_binary_cache |-> ccache.val]))

\* _expand_effective_config: the templated fields, in the order the code
\* expands them; the first failure aborts
expand_effective_config(cfg, mapping) ==
  LET path_prepend == expand_list(cfg.path_prepend, mapping, "path_prepend")
      cmake_defaults ==
        expand_list(cfg.cmake_defaults, mapping, "cmake_defaults")
      winepath_prepend ==
        expand_list(cfg.winepath_prepend, mapping, "winepath_prepend")
      env == expand_dict_values(cfg.env, mapping, "env")
      emulator_env ==
        expand_dict_values(cfg.emulator_env, mapping, "emulator_env")
      overlay_triplets ==
        expand_list(cfg.vcpkg.overlay_triplets, mapping,
                    "vcpkg.overlay_triplets")
  IN  IF ~path_prepend.ok THEN path_prepend
      ELSE IF ~cmake_defaults.ok THEN cmake_defaults
      ELSE IF ~winepath_prepend.ok THEN winepath_prepend
      ELSE IF ~env.ok THEN env
      ELSE IF ~emulator_env.ok THEN emulator_env
      ELSE IF ~overlay_triplets.ok THEN overlay_triplets
      ELSE Ok([cfg EXCEPT
                 !.path_prepend = path_prepend.val,
                 !.cmake_defaults = cmake_defaults.val,
                 !.winepath_prepend = winepath_prepend.val,
                 !.env = env.val,
                 !.emulator_env = emulator_env.val,
                 !.vcpkg = [cfg.vcpkg EXCEPT
                              !.overlay_triplets = overlay_triplets.val]])

\* resolve_effective_config is modelled in the order it runs, one operator
\* per stretch of the function, each handing its locals to the next.

\* the placeholder mapping, then _expand_effective_config
resolve_expand(effective, map_state, map_build) ==
  IF ~map_state.ok THEN map_state
  ELSE IF ~map_build.ok THEN map_build
  ELSE expand_effective_config(effective,
         [project_root |-> DEFAULT_CONTAINER_ROOT,
          state_dir |-> map_state.val,
          build_dir |-> map_build.val,
          config_dir |-> effective.config_dir])

\* the effective dict, before expansion
resolve_effective(project_cfg, build_cfg, root, locals, derived) ==
  IF ~derived.vcpkg_cfg.ok THEN derived.vcpkg_cfg
  ELSE IF ~derived.config_dir.ok THEN derived.config_dir
  ELSE resolve_expand(
         [version |-> Get(build_cfg, "version", 1),
          image |-> StrOr(build_cfg, project_cfg, "image", DEFAULT_IMAGE),
          project_root |-> Get(build_cfg, "project_root", root),
          state_dir |-> Get(build_cfg, "state_dir", state_dir(root)),
          build_dir |-> derived.build_dir_path,
          generator |->
            StrOr(build_cfg, project_cfg, "generator", DEFAULT_GENERATOR),
          build_type |->
            StrOr(build_cfg, project_cfg, "build_type", DEFAULT_BUILD_TYPE),
          config_dir |-> derived.config_dir.val,
          toolchains |-> locals.toolchains,
          mounts |-> Get(build_cfg, "mounts", <<>>),
          env |-> locals.env,
          emulator_env |-> locals.emulator_env,
          path_prepend |-> derived.path_prepend,
          vcpkg |-> derived.vcpkg_cfg.val,
          cmake_defaults |-> locals.cmake_defaults,
          winexe_wrappers |-> locals.winexe_wrappers,
          winepath_prepend |-> locals.winepath_prepend,
          bin_aliases |-> locals.bin_aliases],
         to_container_path(Get(build_cfg, "state_dir", state_dir(root)), root,
                           DEFAULT_CONTAINER_ROOT),
         to_container_path(derived.build_dir_path, root,
                           DEFAULT_CONTAINER_ROOT))

\* from the merged locals on: wrapper dir, vcpkg, build_dir, config_dir
resolve_derive(project_cfg, build_cfg, root, project_cfg_path, locals) ==
  resolve_effective(
    project_cfg, build_cfg, root, locals,
    [path_prepend |->
       wrapper_dir_step(locals.path_prepend, locals.winexe_wrappers),
     build_dir_path |-> build_dir_step(project_cfg, build_cfg, root),
     vcpkg_cfg |->
       vcpkg_step(Get(project_cfg, "vcpkg", <<>>),
                  Get(build_cfg, "vcpkg", <<>>), root),
     config_dir |->
       to_container_path(ResolvePath(Parent(project_cfg_path)), root,
                         DEFAULT_CONTAINER_ROOT)])

\* a result, with the merged locals it was computed from
WithLocals(res, locals) ==
  IF res.ok THEN [ok |-> TRUE, val |-> res.val, locals |-> <<locals>>]
  ELSE [ok |-> FALSE, err |-> res.err, locals |-> <<locals>>]

resolve_merged(project_cfg, build_cfg, root, project_cfg_path, merged_res) ==
  IF ~merged_res.ok THEN merged_res
  ELSE WithLocals(resolve_derive(project_cfg, build_cfg, root,
                                 project_cfg_path, merged_res.val),
                  merged_res.val)

resolve_validated(project_cfg, build_cfg, root, project_cfg_path, valid) ==
  IF ~valid.ok THEN valid
  ELSE resolve_merged(project_cfg, build_cfg, root, project_cfg_path,
                      merge_step(project_cfg, build_cfg))

resolve_selected(selected, build_cfg, root, project_cfg_path) ==
  IF ~selected.ok THEN selected
  ELSE resolve_validated(selected.val, build_cfg, root, project_cfg_path,
                         validate_project_config(selected.val))

\* the result: [ok, val] or [ok, err], and under locals the locals after the
\* merges when the function got that far
resolve_effective_config(raw_project_cfg, build_cfg, root, project_cfg_path) ==
  resolve_selected(
    select_profile(raw_project_cfg, active_profile(raw_project_cfg, build_cfg)),
    build_cfg, root, project_cfg_path)

(***************************************************************************)
(* docker.py: the container command                                        *)
(***************************************************************************)
RECURSIVE Dedupe(_, _)
Dedupe(items, out) ==
  IF items = <<>> THEN out
  ELSE Dedupe(Tail(items),
              IF Head(items) \in Range(out) THEN out
              ELSE Append(out, Head(items)))

\* a dedupe that keeps the last occurrence of each entry
RECURSIVE dedupe_keep_last(_)
dedupe_keep_last(items) ==
  IF items = <<>> THEN <<>>
  ELSE IF Head(items) \in Range(Tail(items)) THEN dedupe_keep_last(Tail(items))
  ELSE <<Head(items)>> \o dedupe_keep_last(Tail(items))

dedupe_preserve_order(items) == Dedupe(items, <<>>)

\* the order in which the toolchains dict is iterated
ToolchainOrder == <<"msvc", "sdk">>

ToolchainNames(toolchains) ==
  SelectSeq(ToolchainOrder, LAMBDA name : name \in DOMAIN toolchains)

RECURSIVE ToolchainPaths(_, _)
ToolchainPaths(names, toolchains) ==
  IF names = <<>> THEN <<>>
  ELSE Get(toolchains[Head(names)], "path_prepend", <<>>)
       \o ToolchainPaths(Tail(names), toolchains)

docker_cmd_base(cfg, root) ==
  LET project_root == ResolvePath(cfg.project_root)
      names == ToolchainNames(cfg.toolchains)
      state_host == ResolvePath(cfg.state_dir)
      container_state == to_container_path(state_host, root,
                                           DEFAULT_CONTAINER_ROOT)
      path_prepend ==
        dedupe_preserve_order(
          cfg.path_prepend
          \o << <<"opt", "msvc", "bin", "x64">>, <<"opt", "msvc", "bin">> >>
          \o ToolchainPaths(names, cfg.toolchains))
  IN  IF project_root # root
      THEN Fail("ProjectRootMismatch", [project_root |-> project_root])
      ELSE IF \E name \in DOMAIN cfg.toolchains :
                \/ ~Has(cfg.toolchains[name], "host_path")
                \/ Get(cfg.toolchains[name], "container_path", <<>>) = <<>>
      THEN Fail("ToolchainPathMissing", [field |-> "toolchains"])
      ELSE IF ~container_state.ok THEN container_state
      ELSE Ok([
        project_volume |-> project_root,
        toolchain_volumes |->
          [i \in 1..Len(names) |->
             [host_path |-> cfg.toolchains[names[i]]["host_path"],
              container_path |-> cfg.toolchains[names[i]]["container_path"],
              read_only |-> Get(cfg.toolchains[names[i]], "read_only", FALSE)]],
        mounts |-> cfg.mounts,
        state |-> container_state.val,
        path |-> path_prepend \o << <<"usr", "local", "bin">>,
                                   <<"usr", "bin">>, <<"bin">> >>,
        vcpkg_root |-> IF cfg.vcpkg.enabled
                       THEN <<cfg.vcpkg.container_root>> ELSE <<>>,
        env |-> cfg.env,
        image |-> cfg.image])

(***************************************************************************)
(* The host filesystem, as pathlib sees it                                 *)
(* fs.dirs is the set of directories, fs.files maps each generated file to *)
(* its content, both by resolved path; fs.config says whether the build    *)
(* configuration file exists (its parsed content is build_file).           *)
(***************************************************************************)
\* the path and every directory above it
Ancestors(path) ==
  {AbsPath(SubSeq(ResolvePath(path).parts, 1, n)) :
     n \in 0..Len(ResolvePath(path).parts)}

\* Path.is_dir, Path.exists, Path.read_text, Path.write_text
is_dir(host, path) == ResolvePath(path) \in host.dirs

is_file(host, path) == ResolvePath(path) \in DOMAIN host.files

exists(host, path) == is_dir(host, path) \/ is_file(host, path)

read_text(host, path) == host.files[ResolvePath(path)]

write_text(host, path, content) ==
  [host EXCEPT !.files = Put(@, ResolvePath(path), content)]

\* util.ensure_dir: path.mkdir(parents=True, exist_ok=True)
ensure_dir(host, path) == [host EXCEPT !.dirs = @ \cup Ancestors(path)]

(***************************************************************************)
(* wrappers.py, wine.py: the generated scripts                             *)
(* A generation step returns the host it leaves, the paths it wrote in     *)
(* order, and Ok or the error it died with.  The content of a script is    *)
(* the record of the values rendered into its text.                        *)
(***************************************************************************)
Effect(host, writes, res) == [fs |-> host, writes |-> writes, res |-> res]

Done == Ok(TRUE)

bin_dir(root) == JoinPath(state_dir(root), RelPath(<<"bin">>))

expand_winexe_template(template, cfg, root) ==
  LET container_build == to_container_path(ResolvePath(cfg.build_dir), root,
                                           DEFAULT_CONTAINER_ROOT)
  IN  IF ~container_build.ok THEN container_build
      ELSE expand_template(template,
             [build_dir |-> container_build.val,
              project_root |-> DEFAULT_CONTAINER_ROOT,
              state_dir |-> DEFAULT_CONTAINER_ROOT \o <<STATE_DIRNAME>>,
              config_dir |-> IF Get(cfg, "config_dir", <<>>) = <<>>
                             THEN DEFAULT_CONTAINER_ROOT ELSE cfg.config_dir],
             "winexe wrapper exe")

\* _winepath_env: the non-empty entries, joined
winepath_env(cfg) ==
  SelectSeq(Get(cfg, "winepath_prepend", <<>>), LAMBDA entry : entry # <<>>)

render_winexe_wrapper(exe, msvc_env) ==
  [script |-> "winexe", exe |-> exe, msvc_env |-> msvc_env, winepath |-> <<>>]

\* sorted(emulator_env.items()): the order of the dict is lost
render_cross_emulator(emulator_env) ==
  [script |-> "emulator", winepath |-> <<>>,
   exports |-> {<<emulator_env[i].k, emulator_env[i].v>> :
                  i \in 1..Len(emulator_env)}]

\* the WINCROSS_WINEPATH_PREPEND line put after the first line, if not empty
with_winepath(content, winepath) == [content EXCEPT !.winepath = winepath]

render_bin_alias(state_container, name) ==
  [script |-> "alias", target |-> state_container \o <<"bin">> \o name]

render_mt_wrapper == [script |-> "mt"]

\* the end of each script: write unless the file already has the content
write_if_changed(st, script_path, content) ==
  IF exists(st.fs, script_path) /\ read_text(st.fs, script_path) = content
  THEN st
  ELSE Effect(write_text(st.fs, script_path, content),
              Append(st.writes, script_path), st.res)

\* one turn of the loop of ensure_winexe_wrappers
ensure_winexe_wrapper(wrapper, cfg, root, st) ==
  LET exe == expand_winexe_template(wrapper.exe, cfg, root)
      script_path == JoinPath(bin_dir(root), RelPath(wrapper.name))
  IN  IF ~exe.ok THEN [st EXCEPT !.res = exe]
      ELSE IF is_dir(st.fs, script_path)
      THEN [st EXCEPT !.res = Fail("WrapperPathIsDirectory", script_path)]
      ELSE write_if_changed(st, script_path,
             with_winepath(render_winexe_wrapper(exe.val, wrapper.msvc_env),
                           winepath_env(cfg)))

RECURSIVE WinexeWrappersLoop(_, _, _, _)
WinexeWrappersLoop(wrappers, cfg, root, st) ==
  IF wrappers = <<>> \/ ~st.res.ok THEN st
  ELSE WinexeWrappersLoop(Tail(wrappers), cfg, root,
                          ensure_winexe_wrapper(Head(wrappers), cfg, root, st))

ensure_winexe_wrappers(cfg, root, host) ==
  IF Get(cfg, "winexe_wrappers", <<>>) = <<>> THEN Effect(host, <<>>, Done)
  ELSE WinexeWrappersLoop(cfg.winexe_wrappers, cfg, root,
                          Effect(ensure_dir(host, bin_dir(root)), <<>>, Done))

\* read_text of a directory raises IsADirectoryError
ensure_cross_emulator(cfg, root, host) ==
  LET script_path == JoinPath(bin_dir(root), RelPath(<<"wincross-emulator">>))
      st == Effect(ensure_dir(host, bin_dir(root)), <<>>, Done)
  IN  IF is_dir(st.fs, script_path)
      THEN [st EXCEPT !.res = Fail("IsADirectoryError", script_path)]
      ELSE write_if_changed(st, script_path,
             with_winepath(
               render_cross_emulator(Get(cfg, "emulator_env", <<>>)),
               winepath_env(cfg)))

\* one turn of the loop of ensure_bin_aliases
ensure_bin_alias(name, dir, state_container, st) ==
  LET script_path == JoinPath(dir, RelPath(name))
  IN  IF name = <<>>
      THEN [st EXCEPT !.res = Fail("EntryNotNonEmptyString",
                                   [context |-> "bin_aliases"])]
      ELSE IF is_dir(st.fs, script_path)
      THEN [st EXCEPT !.res = Fail("IsADirectoryError", script_path)]
      ELSE write_if_changed(st, script_path,
                            render_bin_alias(state_container, name))

RECURSIVE BinAliasesLoop(_, _, _, _)
BinAliasesLoop(aliases, dir, state_container, st) ==
  IF aliases = <<>> \/ ~st.res.ok THEN st
  ELSE BinAliasesLoop(Tail(aliases), dir, state_container,
                      ensure_bin_alias(Head(aliases), dir, state_container, st))

ensure_bin_aliases(cfg, root, host) ==
  LET dir == JoinPath(ResolvePath(cfg.build_dir), RelPath(<<"bin">>))
      state_container == to_container_path(ResolvePath(cfg.state_dir), root,
                                           DEFAULT_CONTAINER_ROOT)
      st == Effect(ensure_dir(host, dir), <<>>, Done)
  IN  IF Get(cfg, "bin_aliases", <<>>) = <<>> THEN Effect(host, <<>>, Done)
      ELSE IF ~state_container.ok THEN [st EXCEPT !.res = state_container]
      ELSE BinAliasesLoop(cfg.bin_aliases, dir, state_container.val, st)

\* wine.ensure_mt_wrapper: written only when nothing is at the path
ensure_mt_wrapper(path, host) ==
  IF exists(host, path) THEN Effect(host, <<>>, Done)
  ELSE Effect(write_text(host, path, render_mt_wrapper), <<path>>, Done)

mt_wrapper_path(root) == JoinPath(state_dir(root), RelPath(<<"mt-wrapper.sh">>))

(***************************************************************************)
(* doctor.py: the checks of the doctor command                             *)
(* An error is recorded as the check that failed and the toolchain it is   *)
(* about ("" for the checks that are about no toolchain).                  *)
(***************************************************************************)
Violation(check, subject) == [check |-> check, subject |-> subject]

\* the order of the dict merge_toolchains builds: the project's names, then
\* the names only the build configuration has
MergedToolchainNames(base, override) ==
  ToolchainNames(base)
  \o SelectSeq(ToolchainNames(override), LAMBDA name : name \notin DOMAIN base)

\* a relative path is looked up from the working directory
exists_from_cwd(host, path) == exists(host, JoinPath(host.cwd, path))

\* one turn of the loop over the merged toolchains
doctor_toolchain(name, tool, host) ==
  IF ~Has(tool, "host_path")
  THEN <<Violation("toolchain host_path set", name)>>
  ELSE (IF Get(tool, "container_path", <<>>) = <<>>
        THEN <<Violation("toolchain container_path set", name)>> ELSE <<>>)
       \o (IF ~exists_from_cwd(host, tool["host_path"])
           THEN <<Violation("toolchain host path exists", name)>> ELSE <<>>)

RECURSIVE doctor_toolchains(_, _, _)
doctor_toolchains(names, toolchains, host) ==
  IF names = <<>> THEN <<>>
  ELSE doctor_toolchain(Head(names), toolchains[Head(names)], host)
       \o doctor_toolchains(Tail(names), toolchains, host)

doctor_vcpkg(vcpkg_build, host) ==
  (IF ~Has(vcpkg_build, "host_root")
   THEN <<Violation("vcpkg host_root set", "")>>
   ELSE IF ~exists_from_cwd(host, vcpkg_build["host_root"])
   THEN <<Violation("vcpkg root exists", "")>> ELSE <<>>)
  \o (IF ~Has(vcpkg_build, "host_binary_cache")
      THEN <<Violation("vcpkg host_binary_cache set", "")>>
      ELSE IF ~exists_from_cwd(host, vcpkg_build["host_binary_cache"])
      THEN <<Violation("vcpkg binary cache exists", "")>> ELSE <<>>)

\* doctor that leaves at the first error
doctor_first_error(project_cfg, build_cfg, root, host) ==
  LET project_root == JoinPath(host.cwd,
                               Get(build_cfg, "project_root", RelPath(<<>>)))
      base == Get(project_cfg, "toolchains", <<>>)
      override == Get(build_cfg, "toolchains", <<>>)
      all == (IF ~host.docker THEN <<Violation("docker on PATH", "")>>
              ELSE <<>>)
             \o (IF ~exists(host, project_root)
                 THEN <<Violation("project_root exists", "")>> ELSE <<>>)
             \o (IF ResolvePath(project_root) # root
                 THEN <<Violation("project_root is root", "")>> ELSE <<>>)
             \o doctor_toolchains(MergedToolchainNames(base, override),
                                  merge_toolchains(base, override), host)
             \o (IF vcpkg_enabled(Get(project_cfg, "vcpkg", <<>>),
                                  Get(build_cfg, "vcpkg", <<>>))
                 THEN doctor_vcpkg(Get(build_cfg, "vcpkg", <<>>), host)
                 ELSE <<>>)
  IN  IF all = <<>> THEN all ELSE <<Head(all)>>

\* the list of errors doctor prints; it exits 1 iff the list is not empty
doctor(project_cfg, build_cfg, root, host) ==
  LET project_root == JoinPath(host.cwd,
                               Get(build_cfg, "project_root", RelPath(<<>>)))
      base == Get(project_cfg, "toolchains", <<>>)
      override == Get(build_cfg, "toolchains", <<>>)
  IN  (IF ~host.docker THEN <<Violation("docker on PATH", "")>> ELSE <<>>)
      \o (IF ~exists(host, project_root)
          THEN <<Violation("project_root exists", "")>> ELSE <<>>)
      \o (IF ResolvePath(project_root) # root
          THEN <<Violation("project_root is root", "")>> ELSE <<>>)
      \o doctor_toolchains(MergedToolchainNames(base, override),
                           merge_toolchains(base, override), host)
      \o (IF vcpkg_enabled(Get(project_cfg, "vcpkg", <<>>),
                           Get(build_cfg, "vcpkg", <<>>))
          THEN doctor_vcpkg(Get(build_cfg, "vcpkg", <<>>), host)
          ELSE <<>>)

(***************************************************************************)
(* cli.py, util.py: what init records                                      *)
(* A --toolchain text name=host[:container[:mode]] is the record of its    *)
(* pieces: eq says whether it has an "=", name is the text before it,      *)
(* parts the pieces of the rest between colons (the host path first).      *)
(* None and the empty string are both written "" (the code only tests      *)
(* them with "or"); read_only None is <<>>, a given value <<value>>.       *)
(***************************************************************************)
parse_toolchain_spec(text, root, host) ==
  LET host_path == IF text.parts[1].abs THEN text.parts[1]
                   ELSE ResolvePath(JoinPath(root, text.parts[1]))
      container == IF Len(text.parts) > 1 THEN text.parts[2] ELSE <<>>
      mode == IF Len(text.parts) > 2 THEN <<text.parts[3]>> ELSE <<>>
  IN  IF ~text.eq THEN Fail("ToolchainSpecInvalid", [field |-> "="])
      ELSE IF text.name = ""
      THEN Fail("ToolchainSpecInvalid", [field |-> "name"])
      ELSE IF mode # <<>> /\ mode[1] \notin {"ro", "rw"}
      THEN Fail("ToolchainSpecInvalid", [field |-> "mode"])
      ELSE IF ~exists(host, host_path)
      THEN Fail("ToolchainHostPathNotFound", host_path)
      ELSE Ok([name |-> text.name, host_path |-> host_path,
               container_path |-> container,
               read_only |-> IF mode = <<>> THEN <<>> ELSE <<mode[1] = "ro">>])

\* init_toolchain that never looks at the project configuration
init_toolchain_spec_only(tc, project_toolchains) ==
  IF tc.container_path = <<>>
  THEN Fail("ToolchainContainerPathMissing", [name |-> tc.name])
  ELSE Ok([host_path |-> tc.host_path, container_path |-> tc.container_path,
           read_only |-> IF tc.read_only # <<>> THEN tc.read_only[1]
                         ELSE FALSE])

\* handle_init, one turn of the loop over args.toolchain, after the parse
init_toolchain(tc, project_toolchains) ==
  LET project_tc == Get(project_toolchains, tc.name, <<>>)
      container_path == IF tc.container_path # <<>> THEN tc.container_path
                        ELSE Get(project_tc, "container_path", <<>>)
  IN  IF container_path = <<>>
      THEN Fail("ToolchainContainerPathMissing", [name |-> tc.name])
      ELSE Ok([host_path |-> tc.host_path, container_path |-> container_path,
               read_only |-> IF tc.read_only # <<>> THEN tc.read_only[1]
                             ELSE Get(project_tc, "read_only", FALSE)])

RECURSIVE ToolchainSpecsLoop(_, _, _, _, _)
ToolchainSpecsLoop(specs, project_toolchains, root, host, toolchains_map) ==
  IF specs = <<>> THEN Ok(toolchains_map)
  ELSE LET tc == parse_toolchain_spec(Head(specs), root, host)
           entry == init_toolchain(tc.val, project_toolchains)
       IN  IF ~tc.ok THEN tc
           ELSE IF ~entry.ok THEN entry
           ELSE ToolchainSpecsLoop(Tail(specs), project_toolchains, root, host,
                                   Put(toolchains_map, tc.val.name, entry.val))

\* handle_init, the toolchains: every spec, then every project toolchain
\* must have got a host path
init_toolchains(project_cfg, argv, root, host) ==
  LET project_toolchains == Get(project_cfg, "toolchains", <<>>)
      toolchains_map == ToolchainSpecsLoop(argv.toolchain, project_toolchains,
                                           root, host, <<>>)
  IN  IF ~toolchains_map.ok THEN toolchains_map
      ELSE IF \E name \in DOMAIN project_toolchains :
                name \notin DOMAIN toolchains_map.val
      THEN Fail("ToolchainHostPathRequired", [field |-> "toolchains"])
      ELSE toolchains_map

\* handle_init, the build directory: --build-dir, else the project's, else
\* <state_dir>/build-windows; it must be under the root
init_build_dir(project_cfg, argv, root) ==
  LET value == IF argv.build_dir # <<>> THEN argv.build_dir[1]
               ELSE Get(project_cfg, "build_dir",
                        JoinPath(state_dir(root), RelPath(<<"build-windows">>)))
      build_dir == IF value.abs THEN value
                   ELSE ResolvePath(JoinPath(root, value))
  IN  IF ~is_under_root(build_dir, root)
      THEN Fail("PathOutsideRoot", build_dir)
      ELSE Ok(build_dir)

\* handle_init, the vcpkg block (no --vcpkg-root, --vcpkg-cache given)
init_vcpkg(project_cfg, argv, root) ==
  LET project_vcpkg == Get(project_cfg, "vcpkg", <<>>)
      vcpkg_root == JoinPath(state_dir(root), RelPath(<<"vcpkg">>))
  IN  IF argv.vcpkg \/ Get(project_vcpkg, "enabled", FALSE)
      THEN [enabled |-> TRUE,
            host_root |-> vcpkg_root,
            host_binary_cache |-> JoinPath(vcpkg_root, RelPath(<<"bincache">>)),
            triplet |-> StrOr(project_vcpkg, <<>>, "triplet", "x64-windows"),
            packages |-> Get(project_vcpkg, "packages", <<>>)]
      ELSE [enabled |-> FALSE]

\* handle_init, the dict it is about to write (lines 127-142); the options
\* the model never passes are at their defaults
init_data(project_cfg, build_dir, toolchains_map, argv, root) ==
  IF ~build_dir.ok THEN build_dir
  ELSE IF ~toolchains_map.ok THEN toolchains_map
  ELSE Ok([version |-> 2,
           image |-> StrOr(project_cfg, <<>>, "image", DEFAULT_IMAGE),
           project_root |-> root,
           state_dir |-> state_dir(root),
           build_dir |-> build_dir.val,
           generator |-> "",
           build_type |-> "",
           profile |-> argv.profile,
           toolchains |-> toolchains_map.val,
           mounts |-> <<>>,
           env |-> <<>>,
           path_prepend |-> <<>>,
           vcpkg |-> init_vcpkg(project_cfg, argv, root),
           cmake_defaults |-> <<>>])

\* handle_init on the selected profile: validation, the build directory,
\* then the toolchains (lines 50-87)
init_selected(project_cfg, argv, root, host) ==
  IF ~validate_project_config(project_cfg).ok
  THEN validate_project_config(project_cfg)
  ELSE init_data(project_cfg, init_build_dir(project_cfg, argv, root),
                 init_toolchains(project_cfg, argv, root, host), argv, root)

\* handle_init up to the dict it is about to write (lines 48-142)
init_config(raw_project_cfg, argv, root, host) ==
  LET project_cfg == select_profile(raw_project_cfg, argv.profile)
  IN  IF ~project_cfg.ok THEN project_cfg
      ELSE init_selected(project_cfg.val, argv, root, host)

\* handle_init, the directories it makes before it writes (lines 144-158)
RECURSIVE EnsureDirs(_, _)
EnsureDirs(host, paths) ==
  IF paths = <<>> THEN host
  ELSE EnsureDirs(ensure_dir(host, Head(paths)), Tail(paths))

init_dirs(cfg, root, host) ==
  EnsureDirs(host,
    <<state_dir(root), cfg.build_dir>>
    \o [i \in 1..6 |->
          JoinPath(state_dir(root),
                   RelPath(<< <<"sccache", "wine", "home", "logs", "bin",
                                "xdg-runtime">>[i] >>))]
    \o (IF cfg.vcpkg.enabled
        THEN <<cfg.vcpkg.host_root, cfg.vcpkg.host_binary_cache>> ELSE <<>>))

\* write_config that overwrites whatever is there
write_config_always(host, data, force) == Ok(data)

\* config.write_config: the content the file gets, or ConfigExists
write_config(host, data, force) ==
  IF host.config /\ ~force THEN Fail("ConfigExists", [field |-> "build config"])
  ELSE Ok(data)

(***************************************************************************)
(* cmake.py: the argument lists of the build tools                         *)
(* An argument is the sequence of its pieces, the option text first:       *)
(* <<"-G">> is "-G", <<"-G", "Ninja">> is "-GNinja", and                   *)
(* <<"-DCMAKE_BUILD_TYPE=", "Debug">> is "-DCMAKE_BUILD_TYPE=Debug".       *)
(***************************************************************************)
\* a.startswith(prefix), for a prefix that is one piece
startswith(a, prefix) == a # <<>> /\ Head(a) = prefix

cmake_args(cfg, root, extra) ==
  LET has_src == \E i \in 1..Len(extra) : startswith(extra[i], "-S")
      has_build == \E i \in 1..Len(extra) : startswith(extra[i], "-B")
      container_build == to_container_path(ResolvePath(cfg.build_dir), root,
                                           DEFAULT_CONTAINER_ROOT)
      defaults == Get(cfg, "cmake_defaults", <<>>)
      combined == defaults \o extra
      src == IF has_src THEN <<>> ELSE << <<"-S">>, DEFAULT_CONTAINER_ROOT >>
      build == IF has_build THEN <<>> ELSE << <<"-B">>, container_build.val >>
      generator ==
        IF Get(cfg, "generator", "") # "" /\ <<"-G">> \notin Range(combined)
        THEN << <<"-G">>, <<cfg.generator>> >>
        ELSE <<>>
      build_type ==
        IF /\ Get(cfg, "build_type", "") # ""
           /\ ~\E i \in 1..Len(combined) :
                 \/ startswith(combined[i], "-DCMAKE_BUILD_TYPE=")
                 \/ startswith(combined[i], "-DCMAKE_BUILD_TYPE:")
        THEN << <<"-DCMAKE_BUILD_TYPE=", cfg.build_type>> >>
        ELSE <<>>
  IN  IF ~has_build /\ ~container_build.ok THEN container_build
      ELSE Ok(<< <<"cmake">> >> \o src \o build \o generator \o build_type
              \o defaults \o extra)

build_args(cfg, root, extra) ==
  LET container_build == to_container_path(ResolvePath(cfg.build_dir), root,
                                           DEFAULT_CONTAINER_ROOT)
      has_parallel == \E i \in 1..Len(extra) :
                        extra[i] = <<"--parallel">> \/ startswith(extra[i], "-j")
  IN  IF ~container_build.ok THEN container_build
      ELSE Ok(<< <<"cmake">>, <<"--build">>, container_build.val >>
              \o (IF has_parallel THEN <<>> ELSE << <<"--parallel">> >>)
              \o extra)

test_args(cfg, root, extra) ==
  LET container_build == to_container_path(ResolvePath(cfg.build_dir), root,
                                           DEFAULT_CONTAINER_ROOT)
  IN  IF ~container_build.ok THEN container_build
      ELSE Ok(<< <<"ctest">>, <<"--test-dir">>, container_build.val >>
              \o (IF <<"--output-on-failure">> \in Range(extra)
                  THEN <<>> ELSE << <<"--output-on-failure">> >>)
              \o extra)

(***************************************************************************)
(* State                                                                   *)
(***************************************************************************)
VARIABLES
  project_file,      \* the project configuration file, parsed
  build_file,        \* the build configuration file, parsed (<<>> if absent)
  root,              \* the detected project root
  project_cfg_path,  \* where the project configuration file lives
  fs,                \* the host: directories, generated files, docker, cwd
  pc,                \* position of the running command
  run,               \* the running command: its arguments, the step it is
                     \* at, the files it wrote, the containers it launched
  merged,            \* the command's locals after the merges, if reached
  effective,         \* the effective configuration, if resolved
  err,               \* the error the command died with, if any
  invocation,        \* the container command launched, if any
  call,              \* the last library call made directly, with its result
  history            \* what earlier commands did: the build configuration
                     \* the first successful init wrote, whether an init
                     \* used --force, whether generation has completed

vars == <<project_file, build_file, root, project_cfg_path, fs, pc, run,
          merged, effective, err, invocation, call, history>>

files == <<project_file, build_file, root, project_cfg_path, fs>>

(***************************************************************************)
(* The configurations the model starts from                                *)
(***************************************************************************)
Opt(S) == {{}} \cup {{v} : v \in S}

\* the dict of the keys whose option is present
Prune(f) ==
  [k \in {x \in DOMAIN f : f[x] # {}} |-> CHOOSE v \in f[k] : TRUE]

ListsUpTo(n, S) == UNION {[1..k -> S] : k \in 0..n}

EnvsUpTo(n, K, V) ==
  {e \in ListsUpTo(n, [k : K, v : V]) :
     \A i, j \in 1..Len(e) : e[i].k = e[j].k => i = j}

TheRoot == AbsPath(<<"proj">>)

DefaultCfgPath == AbsPath(<<"proj", "wincross.toml">>)

\* the build configuration init writes for TheRoot with no options
DefaultBuild == [
  version |-> 2,
  image |-> DEFAULT_IMAGE,
  project_root |-> TheRoot,
  state_dir |-> state_dir(TheRoot),
  build_dir |-> JoinPath(state_dir(TheRoot), RelPath(<<"build-windows">>)),
  profile |-> "",
  toolchains |-> <<>>,
  mounts |-> <<>>,
  env |-> <<>>,
  path_prepend |-> <<>>,
  vcpkg |-> [enabled |-> FALSE],
  cmake_defaults |-> <<>>]

\* no command is running
NoRun == [cmd |-> "none", argv |-> <<>>, step |-> 0, writes |-> <<>>,
          launches |-> 0, again |-> FALSE]

NoHistory == [first_init |-> <<>>, forced |-> FALSE, generated |-> FALSE]

\* the host after init: the project root and the state directory exist, no
\* script has been generated, docker is installed, the command is run from
\* the project root
DefaultHost == [
  config |-> TRUE,
  dirs |-> Ancestors(state_dir(TheRoot)),
  files |-> <<>>,
  docker |-> TRUE,
  cwd |-> TheRoot]

\* the state before any command has run
SetupOn(project, build, path, host) ==
  /\ project_file = project
  /\ build_file = build
  /\ project_cfg_path = path
  /\ root = TheRoot
  /\ fs = host
  /\ pc = "idle"
  /\ run = NoRun
  /\ merged = <<>>
  /\ effective = <<>>
  /\ err = <<>>
  /\ invocation = <<>>
  /\ call = <<>>
  /\ history = NoHistory

Setup(project, build, path) == SetupOn(project, build, path, DefaultHost)

Entries == {<<"opt">>, wrapper_dir, <<"{state_dir}", "bin">>, <<"{bogus}">>,
            <<"{0}", "bin">>}

BuildEntries == {<<"alt">>, wrapper_dir}

OneWrapper ==
  << [name |-> <<"cl.exe">>, exe |-> <<"{build_dir}", "cl.exe">>] >>

ListFields == {"cmake_defaults", "path_prepend", "winepath_prepend",
               "bin_aliases"}

\* one list field set on both sides, with or without a winexe wrapper
InitLists ==
  \E f \in ListFields, pl \in ListsUpTo(MaxLen, Entries),
     bl \in ListsUpTo(MaxBuildLen, BuildEntries), w \in Opt({OneWrapper}) :
    Setup(Overlay([x \in {f} |-> pl], Prune([winexe_wrappers |-> w])),
          Overlay(DefaultBuild, [x \in {f} |-> bl]), DefaultCfgPath)

EnvValues == {<<"opt">>, <<"{build_dir}", "bin">>, <<"{bogus}">>}

\* env or emulator_env set on both sides
InitEnvs ==
  \E f \in {"env", "emulator_env"},
     pe \in EnvsUpTo(MaxLen, {"CC", "CXX"}, EnvValues),
     be \in EnvsUpTo(MaxBuildLen, {"CC", "WINEDEBUG"},
                     {<<"alt">>, <<"{0}">>}) :
    Setup([x \in {f} |-> pe], Overlay(DefaultBuild, [x \in {f} |-> be]),
          DefaultCfgPath)

ProjectToolchain == {
  <<>>,
  [container_path |-> <<"opt", "msvc">>],
  [container_path |-> <<"opt", "msvc">>, read_only |-> TRUE],
  [container_path |-> <<"opt", "msvc">>, host_path |-> AbsPath(<<"tools">>)]}

BuildToolchain == {
  [host_path |-> AbsPath(<<"tools">>), container_path |-> <<"opt", "alt">>,
   read_only |-> FALSE],
  [host_path |-> AbsPath(<<"tools">>)],
  [host_path |-> AbsPath(<<"tools">>), container_path |-> <<>>]}

\* toolchains msvc and sdk, each declared by the project, the build, or both
InitToolchains ==
  \E pm \in Opt(ProjectToolchain), ps \in Opt(ProjectToolchain),
     bm \in Opt(BuildToolchain), bs \in Opt(BuildToolchain) :
    Setup([toolchains |-> Prune([msvc |-> pm, sdk |-> ps])],
          Overlay(DefaultBuild,
                  [toolchains |-> Prune([msvc |-> bm, sdk |-> bs])]),
          DefaultCfgPath)

\* image, generator and build_type: absent, empty or set, on each side
InitScalars ==
  \E pi \in Opt({"", "project-image"}), pg \in Opt({"", "project-generator"}),
     pt \in Opt({"", "project-type"}), bi \in Opt({"", "build-image"}),
     bg \in Opt({"", "build-generator"}), bt \in Opt({"", "build-type"}) :
    Setup(Prune([image |-> pi, generator |-> pg, build_type |-> pt]),
          Overlay(Without(DefaultBuild, "image"),
                  Prune([image |-> bi, generator |-> bg, build_type |-> bt])),
          DefaultCfgPath)

RecordedRoots == {TheRoot, AbsPath(<<"proj", "sub">>), AbsPath(<<"other">>),
                  AbsPath(<<"proj", "sub", "..">>)}

\* a build configuration recorded for this or another root, with its state
\* and build directories, and the project configuration file in or out of root
InitRoots ==
  \E pb \in Opt({RelPath(<<"out">>)}),
     r \in Opt(RecordedRoots),
     s \in Opt({state_dir(x) : x \in RecordedRoots}),
     b \in Opt({JoinPath(state_dir(x), RelPath(<<"build-windows">>)) :
                  x \in RecordedRoots}
               \cup {RelPath(<<"build">>), AbsPath(<<"proj", "..", "etc">>)}),
     path \in {DefaultCfgPath, AbsPath(<<"proj", "cfg", "wincross.toml">>),
               AbsPath(<<"other", "wincross.toml">>)} :
    Setup(Prune([build_dir |-> pb]),
          Overlay([k \in (DOMAIN DefaultBuild)
                            \ {"project_root", "state_dir", "build_dir"} |->
                     DefaultBuild[k]],
                  Prune([project_root |-> r, state_dir |-> s, build_dir |-> b])),
          path)

ProjectVcpkg == {
  [enabled |-> TRUE],
  [enabled |-> FALSE],
  [triplet |-> "x86-windows",
   overlay_triplets |-> << <<"{config_dir}", "triplets">> >>],
  [enabled |-> TRUE, overlay_triplets |-> << <<"{bogus}", "triplets">> >>],
  [enabled |-> TRUE, host_root |-> AbsPath(<<"proj", "vcpkg">>)],
  [enabled |-> TRUE, host_binary_cache |-> AbsPath(<<"proj", "cache">>)]}

\* the vcpkg block on each side
InitVcpkg ==
  \E pv \in Opt(ProjectVcpkg), e \in Opt(BOOLEAN),
     r \in Opt({AbsPath(<<"proj", ".wincross", "vcpkg">>),
                AbsPath(<<"other", "vcpkg">>)}),
     c \in Opt({AbsPath(<<"proj", ".wincross", "vcpkg", "bincache">>),
                AbsPath(<<"other", "cache">>)}),
     present \in BOOLEAN :
    Setup(Prune([vcpkg |-> pv]),
          IF present
          THEN Overlay(DefaultBuild,
                       [vcpkg |-> Prune([enabled |-> e, host_root |-> r,
                                         host_binary_cache |-> c])])
          ELSE Without(DefaultBuild, "vcpkg"),
          DefaultCfgPath)

\* one project and build configuration that set every merged field
SampleProject == [
  image |-> "project-image",
  generator |-> "project-generator",
  cmake_defaults |-> << <<"opt">>, <<"{build_dir}", "bin">> >>,
  path_prepend |-> << <<"opt">> >>,
  winepath_prepend |-> << <<"{project_root}", "dll">> >>,
  bin_aliases |-> << <<"cl.exe">> >>,
  env |-> << [k |-> "CC", v |-> <<"opt">>], [k |-> "CXX", v |-> <<"opt">>] >>,
  emulator_env |-> << [k |-> "WINEDEBUG", v |-> <<"opt">>] >>,
  toolchains |-> [msvc |-> [container_path |-> <<"opt", "msvc">>,
                            read_only |-> TRUE]]]

SampleBuild ==
  Overlay(Without(DefaultBuild, "image"), [
    generator |-> "build-generator",
    cmake_defaults |-> << <<"opt">> >>,
    path_prepend |-> << <<"alt">> >>,
    winepath_prepend |-> << <<"alt">> >>,
    bin_aliases |-> << <<"link.exe">> >>,
    env |-> << [k |-> "WINEDEBUG", v |-> <<"alt">>],
               [k |-> "CC", v |-> <<"{state_dir}", "cc">>] >>,
    emulator_env |-> << [k |-> "WINEDEBUG", v |-> <<"alt">>] >>,
    toolchains |-> [msvc |-> [host_path |-> AbsPath(<<"tools">>),
                              read_only |-> FALSE],
                    sdk |-> [host_path |-> AbsPath(<<"sdk">>),
                             container_path |-> <<"opt", "sdk">>]]])

InitSample == Setup(SampleProject, SampleBuild, DefaultCfgPath)

ProfileNames == {"", "dev", "bad", "missing"}

\* the values a project configuration key takes, in the base and in a profile
ValueOptions(key) ==
  CASE key \in {"cmake_defaults", "path_prepend", "winepath_prepend",
                "bin_aliases"} ->
         ListsUpTo(MaxBuildLen, {<<"opt">>, <<"{bogus}">>})
    [] key = "winexe_wrappers" ->
         {OneWrapper,
          << [name |-> <<"cl.exe">>, exe |-> <<"alt.exe">>,
              msvc_env |-> TRUE] >>,
          << [name |-> <<"..", "x">>, exe |-> <<"x.exe">>] >>}
    [] key = "env" -> EnvsUpTo(1, {"CC", "CXX"}, {<<"opt">>, <<"alt">>})
    [] key = "toolchains" ->
         {[msvc |-> tc] : tc \in ProjectToolchain}
         \cup {[sdk |-> [container_path |-> <<"opt", "sdk">>]]}
    [] key = "vcpkg" -> ProjectVcpkg
    [] key = "image" -> {"", "image-a", "image-b"}
    [] key = "generator" -> {"flat-generator"}
    [] key = "cmake" ->
         {[defaults |-> << <<"legacy">> >>],
          [generator |-> "legacy-generator"]}
    [] key = "wincross" ->
         {[winexe_wrappers |-> OneWrapper],
          [bin_aliases |-> << <<"cl.exe">> >>]}
    [] key = "path" -> {[prepend |-> << <<"legacy">> >>]}

ProfileKeys == {"cmake_defaults", "path_prepend", "winepath_prepend",
                "bin_aliases", "winexe_wrappers", "env", "toolchains",
                "vcpkg", "image", "generator", "cmake", "wincross", "path"}

\* (key set in the base, key set in the profile "dev")
KeyPairs ==
  {<<k, k>> : k \in ProfileKeys}
  \cup {<<"cmake_defaults", "cmake">>, <<"cmake", "cmake_defaults">>,
        <<"generator", "cmake">>, <<"cmake", "generator">>,
        <<"path_prepend", "path">>, <<"path", "path_prepend">>,
        <<"winexe_wrappers", "wincross">>, <<"wincross", "winexe_wrappers">>,
        <<"bin_aliases", "wincross">>, <<"toolchains", "vcpkg">>}

\* a project configuration with a profile "dev" (a table) and a profile "bad"
\* (not a table), a key in the base and a key in "dev"
ProfileProject(base_key, base, dev_key, dev, default_profile) ==
  Overlay(Overlay(Prune([x \in {base_key} |-> base]),
                  Prune([default_profile |-> default_profile])),
          [profiles |-> [dev |-> Prune([x \in {dev_key} |-> dev]),
                         bad |-> [not_a_table |-> TRUE]]])

\* profiles in the project configuration, and the profile init recorded
InitProfileFiles(recorded) ==
  \E kp \in KeyPairs, d \in Opt({"dev"}), bp \in recorded :
    \E b \in Opt(ValueOptions(kp[1])), o \in Opt(ValueOptions(kp[2])) :
      Setup(ProfileProject(kp[1], b, kp[2], o, d),
            Overlay(DefaultBuild, [profile |-> bp]), DefaultCfgPath)

\* winexe wrapper descriptors: two names, cl.exe with two different targets
WrapperEntries == {
  [name |-> <<"cl.exe">>, exe |-> <<"{build_dir}", "cl.exe">>],
  [name |-> <<"cl.exe">>, exe |-> <<"alt.exe">>, msvc_env |-> TRUE],
  [name |-> <<"link.exe">>, exe |-> <<"{build_dir}", "link.exe">>]}

\* winexe wrappers in the base, in the profile "dev" and in the build
\* configuration; "dev" is selected when it is the default profile
InitWrappers ==
  \E base \in ListsUpTo(MaxLen, WrapperEntries),
     dev \in ListsUpTo(MaxBuildLen, WrapperEntries),
     bw \in ListsUpTo(MaxBuildLen, WrapperEntries), d \in Opt({"dev"}) :
    Setup(Overlay(Prune([default_profile |-> d]),
                  [winexe_wrappers |-> base,
                   profiles |-> [dev |-> [winexe_wrappers |-> dev]]]),
          Overlay(DefaultBuild, [winexe_wrappers |-> bw]), DefaultCfgPath)

\* winexe wrappers as a project declares them: a sound one, one named as the
\* emulator script, one naming the parent directory, two whose names are not
\* basenames, one whose script path is a directory on some hosts, and one
\* with an unknown placeholder
GenWrappers == {
  [name |-> <<"cl.exe">>, exe |-> <<"{build_dir}", "cl.exe">>],
  [name |-> <<"wincross-emulator">>, exe |-> <<"{state_dir}", "emu.exe">>],
  [name |-> <<"..">>, exe |-> <<"up.exe">>],
  [name |-> <<"..", "escape">>, exe |-> <<"x.exe">>],
  [name |-> <<>>, exe |-> <<"x.exe">>],
  [name |-> <<"sub">>, exe |-> <<"sub.exe">>, msvc_env |-> TRUE],
  [name |-> <<"ld.exe">>, exe |-> <<"{bogus}", "ld.exe">>]}

\* hosts: as init leaves it, with a directory <state_dir>/bin/sub, and with
\* a script <state_dir>/bin/cl.exe of some other content
GenHosts == {
  DefaultHost,
  [DefaultHost EXCEPT !.dirs = @ \cup Ancestors(
     JoinPath(bin_dir(TheRoot), RelPath(<<"sub">>)))],
  [DefaultHost EXCEPT
     !.dirs = @ \cup Ancestors(bin_dir(TheRoot)),
     !.files = Put(@, JoinPath(bin_dir(TheRoot), RelPath(<<"cl.exe">>)),
                   [script |-> "other"])]}

\* the wrappers of the project and of the build configuration, on each host
InitWrapperScripts ==
  \E base \in ListsUpTo(MaxLen, GenWrappers),
     bw \in ListsUpTo(MaxBuildLen,
                      {[name |-> <<"cl.exe">>, exe |-> <<"alt.exe">>],
                       [name |-> <<"bin", "cl.exe">>, exe |-> <<"alt.exe">>]}),
     host \in GenHosts :
    SetupOn([winexe_wrappers |-> base],
            Overlay(DefaultBuild, [winexe_wrappers |-> bw]), DefaultCfgPath,
            host)

\* wrappers and bin aliases, with the build directory apart from the state
\* directory or the state directory itself, with and without WINEPATH
\* entries and emulator variables
InitAliasScripts ==
  \E base \in ListsUpTo(MaxBuildLen,
                        {w \in GenWrappers :
                           w.name \in {<<"cl.exe">>, <<"wincross-emulator">>}}),
     aliases \in ListsUpTo(MaxLen, {<<"cl.exe">>, <<"link.exe">>}),
     dir \in {DefaultBuild.build_dir, state_dir(TheRoot)},
     wp \in Opt({<< <<"{project_root}", "dll">> >>}),
     ee \in Opt({<< [k |-> "WINEDEBUG", v |-> <<"opt">>] >>}) :
    Setup(Overlay([winexe_wrappers |-> base, bin_aliases |-> aliases],
                  Prune([winepath_prepend |-> wp, emulator_env |-> ee])),
          Overlay(DefaultBuild, [build_dir |-> dir]), DefaultCfgPath)

\* a host with or without docker, the working directory, and the given
\* directories besides the project's
HostWith(docker, cwd, paths) ==
  [DefaultHost EXCEPT
     !.docker = docker, !.cwd = cwd,
     !.dirs = @ \cup Ancestors(cwd) \cup UNION {Ancestors(p) : p \in paths}]

\* doctor: toolchains declared by the project, the build, or both, with the
\* host path /tools there or not
InitDoctorToolchains ==
  \E pm \in Opt(ProjectToolchain), bm \in Opt(BuildToolchain),
     bs \in Opt(BuildToolchain), docker \in BOOLEAN,
     there \in SUBSET {AbsPath(<<"tools">>)} :
    SetupOn([toolchains |-> Prune([msvc |-> pm])],
            Overlay(DefaultBuild,
                    [toolchains |-> Prune([msvc |-> bm, sdk |-> bs])]),
            DefaultCfgPath, HostWith(docker, TheRoot, there))

\* doctor: the recorded project root absent, this root, or another
\* directory, existing or not; run from the root or from below it; the
\* recorded profile known or not
InitDoctorRoots ==
  \E r \in Opt(RecordedRoots), p \in Opt({"missing"}), docker \in BOOLEAN,
     cwd \in {TheRoot, AbsPath(<<"proj", "sub">>)},
     there \in SUBSET {AbsPath(<<"proj", "sub">>), AbsPath(<<"other">>)} :
    SetupOn(<<>>,
            Overlay(Without(Without(DefaultBuild, "project_root"), "profile"),
                    Prune([project_root |-> r, profile |-> p])),
            DefaultCfgPath, HostWith(docker, cwd, there))

\* doctor: vcpkg enabled or not on each side, its host paths recorded or
\* not, existing or not
InitDoctorVcpkg ==
  \E pe \in Opt(BOOLEAN), be \in Opt(BOOLEAN),
     r \in Opt({AbsPath(<<"proj", ".wincross", "vcpkg">>)}),
     c \in Opt({AbsPath(<<"proj", "cache">>)}),
     there \in SUBSET {AbsPath(<<"proj", ".wincross", "vcpkg">>),
                       AbsPath(<<"proj", "cache">>)} :
    SetupOn([vcpkg |-> Prune([enabled |-> pe])],
            Overlay(DefaultBuild,
                    [vcpkg |-> Prune([enabled |-> be, host_root |-> r,
                                      host_binary_cache |-> c])]),
            DefaultCfgPath, HostWith(TRUE, TheRoot, there))

\* the host before the first init: the project root is there, the state
\* directory and the build configuration are not
FreshHost == [DefaultHost EXCEPT !.config = FALSE, !.dirs = Ancestors(TheRoot)]

\* a project before its first init, or one with a build configuration
InitLifecycle ==
  \E project \in {<<>>, [bin_aliases |-> << <<"cl.exe">> >>]},
     initialised \in BOOLEAN :
    IF initialised THEN SetupOn(project, DefaultBuild, DefaultCfgPath, DefaultHost)
    ELSE SetupOn(project, <<>>, DefaultCfgPath, FreshHost)

\* init: toolchains msvc and sdk declared by the project or not, on a host
\* without a build configuration where the toolchain directories are there
\* or not
InitToolchainSpecs ==
  \E pm \in Opt(ProjectToolchain),
     ps \in Opt({[container_path |-> <<"opt", "sdk">>]}),
     there \in SUBSET {AbsPath(<<"tools">>), AbsPath(<<"proj", "tools">>)} :
    SetupOn([toolchains |-> Prune([msvc |-> pm, sdk |-> ps])], <<>>,
            DefaultCfgPath,
            [FreshHost EXCEPT
               !.dirs = @ \cup UNION {Ancestors(p) : p \in there}])

\* PATH entries: plain ones, one of the built-in toolchain bin
\* directories and one of the system path
PathEntries ==
  {<<"opt">>, <<"alt">>, <<"opt", "msvc", "bin">>, <<"usr", "bin">>}

\* path_prepend set on both sides with repeated entries, and a toolchain
\* with or without a path_prepend of its own
InitPathPrepend ==
  \E pl \in ListsUpTo(MaxLen, PathEntries),
     bl \in ListsUpTo(MaxBuildLen, PathEntries),
     tl \in Opt(ListsUpTo(MaxLen, {<<"opt">>, <<"tc">>})),
     w \in Opt({OneWrapper}) :
    Setup(Overlay([path_prepend |-> pl,
                   toolchains |->
                     [msvc |-> Overlay([container_path |-> <<"opt", "msvc">>],
                                       Prune([path_prepend |-> tl]))]],
                  Prune([winexe_wrappers |-> w])),
          Overlay(DefaultBuild,
                  [path_prepend |-> bl,
                   toolchains |-> [msvc |-> [host_path |-> AbsPath(<<"tools">>)]]]),
          DefaultCfgPath)

\* the four placeholders, each used by one env value
PlaceholderEnv ==
  << [k |-> "project_root", v |-> <<"{project_root}">>],
     [k |-> "state_dir", v |-> <<"{state_dir}">>],
     [k |-> "build_dir", v |-> <<"{build_dir}">>],
     [k |-> "config_dir", v |-> <<"{config_dir}">>] >>

\* a project that uses every placeholder, with the state directory and the
\* build directory recorded or not, and its configuration file in the root
\* or below it
InitPlaceholders ==
  \E s \in Opt({state_dir(TheRoot), state_dir(AbsPath(<<"proj", "sub">>))}),
     b \in Opt({RelPath(<<"build">>), AbsPath(<<"proj", "out">>),
                AbsPath(<<"proj", "sub", "..", "out">>)}),
     pb \in Opt({RelPath(<<"out">>)}),
     path \in {DefaultCfgPath, AbsPath(<<"proj", "cfg", "wincross.toml">>)} :
    Setup(Overlay([env |-> PlaceholderEnv], Prune([build_dir |-> pb])),
          Overlay([k \in (DOMAIN DefaultBuild) \ {"state_dir", "build_dir"} |->
                     DefaultBuild[k]],
                  Prune([state_dir |-> s, build_dir |-> b])),
          path)

\* bin aliases whose names are file names or relative paths with "..", which
\* validation and resolution accept alike
InitAliasNames ==
  \E aliases \in ListsUpTo(MaxLen, {<<"cl.exe">>, <<"..", "escape">>,
                                     <<"..", "..", "escape">>}),
     dir \in {DefaultBuild.build_dir, AbsPath(<<"proj", "out">>)} :
    Setup([bin_aliases |-> aliases],
          Overlay(DefaultBuild, [build_dir |-> dir]), DefaultCfgPath)

\* before the first init: a project whose base declares toolchain msvc or
\* not, with a profile dev whose overlay declares toolchain sdk or not, named
\* as default_profile or not; the toolchain directory is there
InitProfileToolchains ==
  \E pm \in Opt({[container_path |-> <<"opt", "msvc">>]}),
     ps \in Opt({[container_path |-> <<"opt", "sdk">>]}),
     d \in Opt({"dev"}) :
    SetupOn(Overlay([toolchains |-> Prune([msvc |-> pm]),
                     profiles |-> [dev |-> [toolchains |-> Prune([sdk |-> ps])]]],
                    Prune([default_profile |-> d])),
            <<>>, DefaultCfgPath,
            [FreshHost EXCEPT !.dirs = @ \cup Ancestors(AbsPath(<<"tools">>))])

\* arguments a user passes through to cmake and ctest
ArgExtras == {<<"-G">>, <<"-G", "Ninja">>, <<"Ninja">>,
              <<"-DCMAKE_BUILD_TYPE=", "Debug">>, <<"-S", "src">>, <<"-B">>,
              <<"-j", "8">>, <<"--parallel">>, <<"--output-on-failure">>,
              <<"--verbose">>}

\* cmake defaults with and without generator and build-type flags, a
\* recorded generator, and a build directory inside or outside the root
InitCmake ==
  \E pd \in ListsUpTo(MaxBuildLen, {<<"-G", "Ninja">>, <<"-Wdev">>,
                                     <<"-DCMAKE_BUILD_TYPE:", "Debug">>}),
     bd \in ListsUpTo(MaxBuildLen, {<<"-G">>}), g \in Opt({"Ninja"}),
     dir \in {DefaultBuild.build_dir, AbsPath(<<"proj", "..", "etc">>)} :
    Setup([cmake_defaults |-> pd],
          Overlay(Overlay(DefaultBuild, Prune([generator |-> g])),
                  [cmake_defaults |-> bd, build_dir |-> dir]),
          DefaultCfgPath)

PathParts == {"proj", "..", "etc", "sub"}

HostPaths ==
  {AbsPath(p) : p \in ListsUpTo(MaxDepth, PathParts)}
  \cup {RelPath(p) : p \in ListsUpTo(MaxDepth, PathParts)}

(***************************************************************************)
(* A command (configure, build, test, shell): resolve, then the container  *)
(***************************************************************************)
\* project_cfg after profile selection, as resolve_effective_config sees it
SelectedProject ==
  select_profile(project_file, active_profile(project_file, build_file))

\* the state after resolve_effective_config returned res
AfterResolve(res) ==
  /\ merged' = Get(res, "locals", <<>>)
  /\ IF res.ok
     THEN /\ pc' = "resolved"
          /\ effective' = <<res.val>>
          /\ err' = <<>>
     ELSE /\ pc' = "failed"
          /\ effective' = <<>>
          /\ err' = <<res.err>>

\* resolve_effective_config(project_cfg, build_cfg, root, project_cfg_path)
ResolveEffectiveConfig ==
  /\ pc = "idle"
  /\ AfterResolve(resolve_effective_config(project_file, build_file, root,
                                           project_cfg_path))
  /\ UNCHANGED <<files, run, history, invocation, call>>

\* run_docker: docker_cmd_base builds the command, subprocess.run launches it
DockerCmdBase ==
  /\ pc = "resolved"
  /\ LET res == docker_cmd_base(effective[1], root)
     IN  IF res.ok
         THEN /\ pc' = "launched"
              /\ invocation' = <<res.val>>
              /\ err' = <<>>
         ELSE /\ pc' = "failed"
              /\ invocation' = <<>>
              /\ err' = <<res.err>>
  /\ UNCHANGED <<files, run, history, merged, effective, call>>

\* the process ends; its effective configuration is discarded
CommandExit ==
  /\ pc \in {"failed", "launched", "done"}
  /\ pc' = "idle"
  /\ run' = NoRun
  /\ merged' = <<>>
  /\ effective' = <<>>
  /\ err' = <<>>
  /\ invocation' = <<>>
  /\ UNCHANGED <<files, history, call>>

(***************************************************************************)
(* cli.py: the handlers, one action per call a handler makes               *)
(* run.step is the position in Steps(run.cmd); pc is "resolved" while the  *)
(* handler runs, "launched" or "done" when it returned, "failed" when it   *)
(* died.  The files a container leaves on the host are not in fs, nor is   *)
(* the copy fix_vcpkg_z3_dll makes of one of them.                         *)
(***************************************************************************)
Steps(cmd) ==
  CASE cmd = "configure" ->
         <<"ensure_mt_wrapper", "ensure_winexe_wrappers",
           "ensure_cross_emulator", "ensure_bin_aliases",
           "ensure_wine_runtime", "ensure_vcpkg", "run_docker">>
    [] cmd = "build" ->
         <<"ensure_winexe_wrappers", "ensure_cross_emulator",
           "ensure_bin_aliases", "ensure_wine_runtime", "ensure_vcpkg",
           "run_docker">>
    [] cmd = "test" ->
         <<"ensure_winexe_wrappers", "ensure_cross_emulator",
           "ensure_bin_aliases", "ensure_wine_runtime", "run_docker">>
    [] cmd = "shell" -> <<"ensure_winexe_wrappers", "run_docker">>
    [] OTHER -> <<>>

AtStep(name) ==
  /\ pc = "resolved"
  /\ run.step \in 1..Len(Steps(run.cmd))
  /\ Steps(run.cmd)[run.step] = name

\* the handler died
Died(error) ==
  /\ pc' = "failed"
  /\ err' = <<error>>

\* handle_configure, handle_build, handle_test, handle_shell up to the
\* effective configuration: load_build_config, resolve_effective_config
HandleCommand(cmd, argv) ==
  /\ pc = "idle"
  /\ run' = [NoRun EXCEPT !.cmd = cmd, !.argv = argv, !.step = 1,
                          !.again = history.generated]
  /\ IF ~fs.config
     THEN /\ Died([kind |-> "ConfigMissing", detail |-> <<>>])
          /\ UNCHANGED <<merged, effective>>
     ELSE AfterResolve(resolve_effective_config(project_file, build_file, root,
                                                project_cfg_path))
  /\ UNCHANGED <<files, invocation, call, history>>

\* a step that writes scripts: effect is what the function did
GenerationStep(name, effect) ==
  /\ AtStep(name)
  /\ fs' = effect.fs
  /\ run' = [run EXCEPT
               !.step = IF effect.res.ok THEN @ + 1 ELSE @,
               !.writes = @ \o [i \in 1..Len(effect.writes) |->
                                  [step |-> name, path |-> effect.writes[i]]]]
  /\ IF effect.res.ok THEN UNCHANGED <<pc, err>> ELSE Died(effect.res.err)
  /\ history' = [history EXCEPT !.generated =
                   @ \/ (name = "ensure_bin_aliases" /\ effect.res.ok)]
  /\ UNCHANGED <<project_file, build_file, root, project_cfg_path, merged,
                 effective, invocation, call>>

EnsureMtWrapper ==
  GenerationStep("ensure_mt_wrapper",
                 ensure_mt_wrapper(mt_wrapper_path(root), fs))

EnsureWinexeWrappers ==
  GenerationStep("ensure_winexe_wrappers",
                 ensure_winexe_wrappers(effective[1], root, fs))

EnsureCrossEmulator ==
  GenerationStep("ensure_cross_emulator",
                 ensure_cross_emulator(effective[1], root, fs))

EnsureBinAliases ==
  GenerationStep("ensure_bin_aliases",
                 ensure_bin_aliases(effective[1], root, fs))

\* run_docker(cfg, root, command, ...): command is the argument, evaluated
\* before the call; docker_cmd_base makes <state_dir>/xdg-runtime once its
\* checks have passed; subprocess.run(check=True) raises when the container
\* exits with a failure
RunDocker(name, command) ==
  /\ AtStep(name)
  /\ LET res == IF command.ok THEN docker_cmd_base(effective[1], root)
                ELSE command
     IN  IF ~res.ok
         THEN /\ Died(res.err)
              /\ UNCHANGED <<fs, run, invocation>>
         ELSE /\ fs' = ensure_dir(fs, JoinPath(ResolvePath(effective[1].state_dir),
                                               RelPath(<<"xdg-runtime">>)))
              /\ invocation' = <<[base |-> res.val, command |-> command.val]>>
              /\ \E exit_ok \in BOOLEAN :
                   /\ run' = [run EXCEPT !.launches = @ + 1,
                                         !.step = IF exit_ok THEN @ + 1 ELSE @]
                   /\ IF ~exit_ok
                      THEN Died([kind |-> "CalledProcessError", detail |-> name])
                      ELSE /\ err' = err
                           /\ pc' = IF run.step = Len(Steps(run.cmd))
                                    THEN "launched" ELSE "resolved"
  /\ UNCHANGED <<project_file, build_file, root, project_cfg_path, merged,
                 effective, call, history>>

EnsureWineRuntime ==
  RunDocker("ensure_wine_runtime", Ok(<<"bash", "-lc", "wine runtime">>))

\* ensure_vcpkg: skipped with --no-vcpkg, returns at once when not enabled
EnsureVcpkg ==
  /\ AtStep("ensure_vcpkg")
  /\ IF run.argv.no_vcpkg \/ ~effective[1].vcpkg.enabled
     THEN /\ run' = [run EXCEPT !.step = @ + 1]
          /\ UNCHANGED <<files, pc, merged, effective, err, invocation, call,
                         history>>
     ELSE RunDocker("ensure_vcpkg",
                    Ok(<<"bash", "-lc", "vcpkg", effective[1].vcpkg.packages>>))

\* the command of the handler's last run_docker: cmake_args(cfg, root,
\* extra); build_args and test_args are called with four arguments and take
\* three, a TypeError; run_shell's bash
LastCommand ==
  CASE run.cmd = "configure" ->
         cmake_args(effective[1], root, run.argv.extra)
    [] run.cmd = "build" -> Fail("TypeError", [fn |-> "build_args"])
    [] run.cmd = "test" -> Fail("TypeError", [fn |-> "test_args"])
    [] OTHER -> Ok(<<"bash", "--noprofile", "--norc">>)

LastRunDocker == RunDocker("run_docker", LastCommand)

\* handle_init, write_config and after (line 160)
InitWritten(host, written, argv) ==
  IF ~written.ok
  THEN /\ Died(written.err)
       /\ fs' = host
       /\ history' = [history EXCEPT !.forced = @ \/ argv.force]
       /\ UNCHANGED build_file
  ELSE /\ pc' = "done"
       /\ err' = <<>>
       /\ fs' = [host EXCEPT !.config = TRUE]
       /\ build_file' = written.val
       /\ history' = [history EXCEPT
                        !.forced = @ \/ argv.force,
                        !.first_init = IF @ = <<>> THEN <<written.val>>
                                       ELSE @]

\* handle_init, the directories and mt-wrapper.sh, made before write_config
\* (lines 144-160)
InitMade(host, data, argv) ==
  InitWritten(host, write_config(host, data, argv.force), argv)

\* handle_init: nothing is made or written unless the configuration was
\* built; the directories and mt-wrapper.sh are made before write_config
InitBuilt(cfg, argv) ==
  IF ~cfg.ok
  THEN /\ Died(cfg.err)
       /\ UNCHANGED <<fs, build_file, history>>
  ELSE InitMade(ensure_mt_wrapper(mt_wrapper_path(root),
                                  init_dirs(cfg.val, root, fs)).fs,
                cfg.val, argv)

HandleInit(argv) ==
  /\ pc = "idle"
  /\ run' = [NoRun EXCEPT !.cmd = "init", !.argv = argv]
  /\ InitBuilt(init_config(project_file, argv, root, fs), argv)
  /\ UNCHANGED <<project_file, root, project_cfg_path, merged, effective,
                 invocation, call>>

\* handle_doctor: the errors are printed and the exit status is 1, or
\* "Doctor: OK" is printed
HandleDoctor ==
  /\ pc = "idle"
  /\ run' = [NoRun EXCEPT !.cmd = "doctor"]
  /\ LET project_cfg == SelectedProject
         errors == doctor(project_cfg.val, build_file, root, fs)
     IN  IF ~fs.config THEN Died([kind |-> "ConfigMissing", detail |-> <<>>])
         ELSE IF ~project_cfg.ok THEN Died(project_cfg.err)
         ELSE IF errors # <<>>
         THEN Died([kind |-> "DoctorFailed", detail |-> errors])
         ELSE pc' = "done" /\ err' = <<>>
  /\ UNCHANGED <<files, merged, effective, invocation, call, history>>

(***************************************************************************)
(* Library functions called directly                                       *)
(***************************************************************************)
SelectProfileCall(profile) ==
  /\ pc = "idle"
  /\ call' = <<[fn |-> "select_profile", profile |-> profile,
                res |-> select_profile(project_file, profile)]>>
  /\ UNCHANGED <<files, run, history, pc, merged, effective, err, invocation>>

\* select_profile applied to the result of select_profile(cfg, None)
SelectProfileAgain(profile) ==
  /\ pc = "idle"
  /\ call # <<>>
  /\ call[1].fn = "select_profile"
  /\ call[1].profile = ""
  /\ call' = <<[fn |-> "select_profile_again", profile |-> profile,
                res |-> select_profile(call[1].res.val, profile)]>>
  /\ UNCHANGED <<files, run, history, pc, merged, effective, err, invocation>>

\* validate_project_config on the selected configuration (as handle_init does)
ValidateProjectConfigCall ==
  /\ pc = "idle"
  /\ call # <<>>
  /\ call[1].fn = "select_profile"
  /\ call[1].res.ok
  /\ call' = <<[fn |-> "validate_project_config", cfg |-> call[1].res.val,
                res |-> validate_project_config(call[1].res.val)]>>
  /\ UNCHANGED <<files, run, history, pc, merged, effective, err, invocation>>

ToContainerPathCall(host_path) ==
  /\ pc = "idle"
  /\ call' = <<[fn |-> "to_container_path", host_path |-> host_path,
                res |-> to_container_path(host_path, root,
                                          DEFAULT_CONTAINER_ROOT)]>>
  /\ UNCHANGED <<files, run, history, pc, merged, effective, err, invocation>>

IsUnderRootCall(path) ==
  /\ pc = "idle"
  /\ call' = <<[fn |-> "is_under_root", path |-> path,
                res |-> is_under_root(path, root)]>>
  /\ UNCHANGED <<files, run, history, pc, merged, effective, err, invocation>>

\* merge_toolchains on the toolchains of the two configuration files
MergeToolchainsCall ==
  /\ pc = "idle"
  /\ LET base == Get(project_file, "toolchains", <<>>)
         override == Get(build_file, "toolchains", <<>>)
     IN  call' = <<[fn |-> "merge_toolchains", base |-> base,
                    override |-> override,
                    res |-> merge_toolchains(base, override),
                    arguments |->
                      merge_toolchains_arguments(base, override)]>>
  /\ UNCHANGED <<files, run, history, pc, merged, effective, err, invocation>>

\* merge_toolchains applied to its own result and an empty override
MergeToolchainsAgain ==
  /\ pc = "idle"
  /\ call # <<>>
  /\ call[1].fn = "merge_toolchains"
  /\ call' = <<[fn |-> "merge_toolchains_again", base |-> call[1].res,
                res |-> merge_toolchains(call[1].res, <<>>)]>>
  /\ UNCHANGED <<files, run, history, pc, merged, effective, err, invocation>>

\* project configurations in the legacy nested layout, the flat layout, or
\* both; a nested key that is not a table is written [not_a_table |-> TRUE]
LegacyCmake == {
  [defaults |-> << <<"legacy">> >>],
  [generator |-> "legacy-generator", build_type |-> "legacy-type"],
  [defaults |-> << <<"legacy">> >>, generator |-> "legacy-generator",
   build_type |-> "legacy-type", build_dir |-> RelPath(<<"legacy">>)],
  [not_a_table |-> TRUE]}

LegacyWincross == {
  [winexe_wrappers |-> OneWrapper, bin_aliases |-> << <<"cl.exe">> >>],
  [winepath_prepend |-> << <<"legacy">> >>,
   emulator_env |-> << [k |-> "WINEDEBUG", v |-> <<"legacy">>] >>],
  [not_a_table |-> TRUE]}

LegacyPath == {[prepend |-> << <<"legacy">> >>], [not_a_table |-> TRUE]}

FlatKeys == [
  cmake_defaults |-> << <<"flat">> >>,
  generator |-> "flat-generator",
  build_dir |-> RelPath(<<"flat">>),
  winexe_wrappers |-> <<>>,
  emulator_env |-> << [k |-> "WINEDEBUG", v |-> <<"flat">>] >>,
  path_prepend |-> << <<"flat">> >>]

InitLayouts ==
  \E c \in Opt(LegacyCmake), w \in Opt(LegacyWincross), p \in Opt(LegacyPath),
     flat \in SUBSET (DOMAIN FlatKeys) :
    Setup(Overlay(Prune([cmake |-> c, wincross |-> w, path |-> p]),
                  [k \in flat |-> FlatKeys[k]]),
          DefaultBuild, DefaultCfgPath)

\* normalize_project_config on the project configuration file
NormalizeProjectConfigCall ==
  /\ pc = "idle"
  /\ call' = <<[fn |-> "normalize_project_config", cfg |-> project_file,
                res |-> normalize_project_config(project_file)]>>
  /\ UNCHANGED <<files, run, history, pc, merged, effective, err, invocation>>

\* normalize_project_config applied to its own result
NormalizeProjectConfigAgain ==
  /\ pc = "idle"
  /\ call # <<>>
  /\ call[1].fn = "normalize_project_config"
  /\ call' = <<[fn |-> "normalize_project_config_again", cfg |-> call[1].res,
                res |-> normalize_project_config(call[1].res)]>>
  /\ UNCHANGED <<files, run, history, pc, merged, effective, err, invocation>>

\* expand_winexe_template(template, cfg, root), as ensure_winexe_wrappers
\* calls it on the effective configuration
ExpandWinexeTemplateCall(template) ==
  /\ pc = "resolved"
  /\ call = <<>>
  /\ call' = <<[fn |-> "expand_winexe_template", template |-> template,
                res |-> expand_winexe_template(template, effective[1], root)]>>
  /\ UNCHANGED <<files, run, history, pc, merged, effective, err, invocation>>

\* cmake_args(cfg, root, extra), on the effective configuration, once in a
\* process
CmakeArgsCall(extra) ==
  /\ pc = "resolved"
  /\ call = <<>>
  /\ call' = <<[fn |-> "cmake_args", cfg |-> effective[1], extra |-> extra,
                res |-> cmake_args(effective[1], root, extra)]>>
  /\ UNCHANGED <<files, run, history, pc, merged, effective, err, invocation>>

BuildArgsCall(extra) ==
  /\ pc = "resolved"
  /\ call = <<>>
  /\ call' = <<[fn |-> "build_args", cfg |-> effective[1], extra |-> extra,
                res |-> build_args(effective[1], root, extra)]>>
  /\ UNCHANGED <<files, run, history, pc, merged, effective, err, invocation>>

TestArgsCall(extra) ==
  /\ pc = "resolved"
  /\ call = <<>>
  /\ call' = <<[fn |-> "test_args", cfg |-> effective[1], extra |-> extra,
                res |-> test_args(effective[1], root, extra)]>>
  /\ UNCHANGED <<files, run, history, pc, merged, effective, err, invocation>>

(***************************************************************************)
(* Specifications                                                          *)
(***************************************************************************)
Init ==
  \/ InitLists
  \/ InitEnvs
  \/ InitToolchains
  \/ InitScalars
  \/ InitRoots
  \/ InitVcpkg
  \/ InitSample
  \/ InitProfileFiles(ProfileNames)

Next ==
  \/ ResolveEffectiveConfig
  \/ DockerCmdBase
  \/ CommandExit

Spec == Init /\ [][Next]_vars

InitProfiles ==
  \/ InitProfileFiles({""})
  \/ InitToolchains
  \/ InitVcpkg

NextProfiles ==
  \/ \E profile \in ProfileNames : SelectProfileCall(profile)
  \/ \E profile \in ProfileNames : SelectProfileAgain(profile)
  \/ ValidateProjectConfigCall
  \/ ResolveEffectiveConfig
  \/ DockerCmdBase
  \/ CommandExit

SpecProfiles == InitProfiles /\ [][NextProfiles]_vars

InitPaths == Setup(<<>>, DefaultBuild, DefaultCfgPath)

NextPaths ==
  \/ \E host_path \in HostPaths : ToContainerPathCall(host_path)
  \/ \E path \in HostPaths : IsUnderRootCall(path)

SpecPaths == InitPaths /\ [][NextPaths]_vars

SpecWrappers == InitWrappers /\ [][Next]_vars

InitLibrary ==
  \/ InitToolchains
  \/ InitLayouts

NextLibrary ==
  \/ MergeToolchainsCall
  \/ MergeToolchainsAgain
  \/ NormalizeProjectConfigCall
  \/ NormalizeProjectConfigAgain

SpecLibrary == InitLibrary /\ [][NextLibrary]_vars

InitArgs == InitCmake

NextArgs ==
  \/ ResolveEffectiveConfig
  \/ \E extra \in ListsUpTo(MaxLen, ArgExtras) : CmakeArgsCall(extra)
  \/ \E extra \in ListsUpTo(MaxLen, ArgExtras) : BuildArgsCall(extra)
  \/ \E extra \in ListsUpTo(MaxLen, ArgExtras) : TestArgsCall(extra)

SpecArgs == InitArgs /\ [][NextArgs]_vars

\* the commands that run in the container, on configurations that generate
\* scripts and on configurations that fail at each stage
Commands == {"configure", "build", "test", "shell"}

\* --no-vcpkg and the pass-through arguments (configure and build only)
CommandArgs(cmd) ==
  CASE cmd = "configure" ->
         [no_vcpkg : BOOLEAN, extra : {<<>>, << <<"-B">>, <<"out">> >>}]
    [] cmd = "build" -> [no_vcpkg : BOOLEAN, extra : {<<>>}]
    [] OTHER -> [no_vcpkg : {FALSE}, extra : {<<>>}]

InitCommands ==
  \/ InitWrapperScripts
  \/ InitAliasScripts
  \/ InitToolchains
  \/ InitRoots
  \/ InitVcpkg
  \/ InitSample

NextCommands ==
  \/ \E cmd \in Commands : \E argv \in CommandArgs(cmd) : HandleCommand(cmd, argv)
  \/ EnsureMtWrapper
  \/ EnsureWinexeWrappers
  \/ EnsureCrossEmulator
  \/ EnsureBinAliases
  \/ EnsureWineRuntime
  \/ EnsureVcpkg
  \/ LastRunDocker
  \/ CommandExit

SpecCommands == InitCommands /\ [][NextCommands]_vars

\* the doctor command
InitDoctor ==
  \/ InitDoctorToolchains
  \/ InitDoctorRoots
  \/ InitDoctorVcpkg

NextDoctor ==
  \/ HandleDoctor
  \/ CommandExit

SpecDoctor == InitDoctor /\ [][NextDoctor]_vars

\* every command, from before the first init on
InitArgv ==
  [profile : {""}, build_dir : {<<>>, <<RelPath(<<"out">>)>>},
   toolchain : {<<>>}, force : BOOLEAN, vcpkg : {FALSE}]

NextLifecycle ==
  \/ \E argv \in InitArgv : HandleInit(argv)
  \/ HandleDoctor
  \/ NextCommands

SpecLifecycle == InitLifecycle /\ [][NextLifecycle]_vars

\* init with --toolchain texts: name=host, name=host::mode,
\* name=host:container, name=host:container:mode, a relative host, a bad
\* mode, and a text without "="
ToolchainTexts ==
  {[eq |-> TRUE, name |-> "msvc", parts |-> parts] :
     parts \in {<<AbsPath(<<"tools">>)>>,
                <<RelPath(<<"tools">>)>>,
                <<AbsPath(<<"tools">>), <<>>, "ro">>,
                <<AbsPath(<<"tools">>), <<>>, "rw">>,
                <<AbsPath(<<"tools">>), <<"opt", "alt">> >>,
                <<AbsPath(<<"tools">>), <<"opt", "alt">>, "ro">>,
                <<AbsPath(<<"tools">>), <<>>, "bad">>}}
  \cup {[eq |-> TRUE, name |-> "sdk", parts |-> <<AbsPath(<<"tools">>)>>],
        [eq |-> TRUE, name |-> "", parts |-> <<AbsPath(<<"tools">>)>>],
        [eq |-> FALSE, name |-> "", parts |-> <<AbsPath(<<"tools">>)>>]}

ToolchainArgv ==
  [profile : {""}, build_dir : {<<>>}, toolchain : ListsUpTo(MaxLen, ToolchainTexts),
   force : {FALSE}, vcpkg : {FALSE}]

NextInit ==
  \/ \E argv \in ToolchainArgv : HandleInit(argv)
  \/ CommandExit

SpecInit == InitToolchainSpecs /\ [][NextInit]_vars

\* the container PATH
SpecPath == InitPathPrepend /\ [][Next]_vars

\* the placeholders of a wrapper's exe template
WrapperTemplates ==
  {<<PlaceholderEnv[i].v[1]>> : i \in DOMAIN PlaceholderEnv}
  \cup {<<PlaceholderEnv[i].v[1], "cl.exe">> : i \in DOMAIN PlaceholderEnv}

NextPlaceholders ==
  \/ ResolveEffectiveConfig
  \/ \E template \in WrapperTemplates : ExpandWinexeTemplateCall(template)

SpecPlaceholders == InitPlaceholders /\ [][NextPlaceholders]_vars

\* the commands on valid configurations; a handler that has its effective
\* configuration runs on, statement after statement, until it returns or
\* dies
\* the vcpkg block init records when vcpkg is enabled
BuildVcpkgPaths ==
  [enabled |-> TRUE,
   host_root |-> JoinPath(state_dir(TheRoot), RelPath(<<"vcpkg">>)),
   host_binary_cache |->
     JoinPath(state_dir(TheRoot), RelPath(<<"vcpkg", "bincache">>))]

InitValid ==
  \E v \in BOOLEAN :
    Setup(SampleProject,
          Overlay(SampleBuild,
                  [vcpkg |-> IF v THEN BuildVcpkgPaths ELSE [enabled |-> FALSE]]),
          DefaultCfgPath)

\* the steps of a handler after it has its effective configuration
HandlerStep ==
  \/ EnsureMtWrapper
  \/ EnsureWinexeWrappers
  \/ EnsureCrossEmulator
  \/ EnsureBinAliases
  \/ EnsureWineRuntime
  \/ EnsureVcpkg
  \/ LastRunDocker

SpecCommandsFair ==
  InitValid /\ [][NextCommands]_vars /\ WF_vars(HandlerStep)

\* the commands on projects with bin aliases
SpecAliases == InitAliasNames /\ [][NextCommands]_vars

\* init with or without --profile, giving host paths for msvc, sdk, both
\* or neither, then the commands
ProfileArgv ==
  [profile : {"", "dev"}, build_dir : {<<>>},
   toolchain : ListsUpTo(MaxLen,
                 {[eq |-> TRUE, name |-> n, parts |-> <<AbsPath(<<"tools">>)>>] :
                    n \in {"msvc", "sdk"}}),
   force : {FALSE}, vcpkg : {FALSE}]

NextAfterInit ==
  \/ \E argv \in ProfileArgv : HandleInit(argv)
  \/ NextCommands

SpecAfterInit == InitProfileToolchains /\ [][NextAfterInit]_vars

(***************************************************************************)
(* Properties                                                              *)
(***************************************************************************)
Resolved == pc = "resolved"

\* the command died inside resolve_effective_config
ResolveFailed == pc = "failed" /\ effective = <<>>

\* result is a followed by b, entry by entry, nothing dropped
ConcatOf(result, a, b) ==
  /\ Len(result) = Len(a) + Len(b)
  /\ \A i \in 1..Len(a) : result[i] = a[i]
  /\ \A j \in 1..Len(b) : result[Len(a) + j] = b[j]

\* result holds the keys of a and of b, with b's value on shared keys
EnvOverlayOf(result, a, b) ==
  /\ EnvKeys(result) = EnvKeys(a) \cup EnvKeys(b)
  /\ \A i, j \in 1..Len(result) : result[i].k = result[j].k => i = j
  /\ \A i \in 1..Len(result) :
       result[i].v = IF result[i].k \in EnvKeys(b) THEN EnvVal(b, result[i].k)
                     ELSE EnvVal(a, result[i].k)

\* per name, b's attributes over a's
ToolchainOverlayOf(result, a, b) ==
  /\ DOMAIN result = (DOMAIN a) \cup (DOMAIN b)
  /\ \A name \in DOMAIN result :
       LET ta == Get(a, name, <<>>)
           tb == Get(b, name, <<>>)
       IN  /\ DOMAIN result[name] = (DOMAIN ta) \cup (DOMAIN tb)
           /\ \A attr \in DOMAIN result[name] :
                result[name][attr] = IF attr \in DOMAIN tb THEN tb[attr]
                                     ELSE ta[attr]

HasField(value) == \E i \in 1..Len(value) : IsField(value[i])

\* expanded has one entry per entry of raw; entries without a replacement
\* field are unchanged
ExpandedFrom(expanded, raw) ==
  /\ Len(expanded) = Len(raw)
  /\ \A i \in 1..Len(raw) : ~HasField(raw[i]) => expanded[i] = raw[i]

\* b's value if set, else a's, else the default
ScalarOf(result, a, b, key, default) ==
  result = IF Has(b, key) /\ b[key] # "" THEN b[key]
           ELSE IF Has(a, key) /\ a[key] # "" THEN a[key]
           ELSE default

\* C1: once resolve_effective_config has merged project config P (profile
\* selected) and build config B, cmake_defaults, path_prepend (before the
\* wrapper-dir step), winepath_prepend and bin_aliases are P's list followed by
\* B's list with nothing dropped; env and emulator_env hold every key of P and
\* B with B's value on shared keys; toolchains hold every name of P and B with
\* B's attributes over P's; and the effective configuration it returns keeps
\* these lists entry for entry (template-free entries unchanged) and has image,
\* generator and build_type equal to B's value if set, else P's, else the
\* built-in default.
C1_MergePrecedence ==
  merged # <<>> =>
    LET P == SelectedProject.val
        B == build_file
        M == merged[1]
    IN  /\ \A f \in ListFields :
             ConcatOf(M[f], Get(P, f, <<>>), Get(B, f, <<>>))
        /\ \A f \in {"env", "emulator_env"} :
             EnvOverlayOf(M[f], Get(P, f, <<>>), Get(B, f, <<>>))
        /\ ToolchainOverlayOf(M.toolchains, Get(P, "toolchains", <<>>),
                              Get(B, "toolchains", <<>>))
        /\ Resolved =>
             LET E == effective[1]
             IN  /\ ExpandedFrom(E.cmake_defaults, M.cmake_defaults)
                 /\ ExpandedFrom(E.winepath_prepend, M.winepath_prepend)
                 /\ E.bin_aliases = M.bin_aliases
                 /\ E.winexe_wrappers = <<>> =>
                      ExpandedFrom(E.path_prepend, M.path_prepend)
                 /\ EnvKeys(E.env) = EnvKeys(M.env)
                 /\ EnvKeys(E.emulator_env) = EnvKeys(M.emulator_env)
                 /\ E.toolchains = M.toolchains
                 /\ ScalarOf(E.image, P, B, "image", DEFAULT_IMAGE)
                 /\ ScalarOf(E.generator, P, B, "generator", DEFAULT_GENERATOR)
                 /\ ScalarOf(E.build_type, P, B, "build_type",
                             DEFAULT_BUILD_TYPE)

\* C1 witness: a resolution where both sides contribute to a list, share an
\* env key and a toolchain name, and the image falls back to the project's
C1_Witness ==
  /\ Resolved
  /\ Get(SelectedProject.val, "cmake_defaults", <<>>) # <<>>
  /\ Get(build_file, "cmake_defaults", <<>>) # <<>>
  /\ EnvKeys(Get(SelectedProject.val, "env", <<>>))
       \cap EnvKeys(Get(build_file, "env", <<>>)) # {}
  /\ (DOMAIN Get(SelectedProject.val, "toolchains", <<>>))
       \cap (DOMAIN Get(build_file, "toolchains", <<>>)) # {}
  /\ ~Has(build_file, "image")
  /\ effective[1].image = SelectedProject.val["image"]

C3_AsStated ==
  (call # <<>> /\ call[1].fn = "select_profile_again") =>
    call[1].res = select_profile(project_file, call[1].profile)

\* C3: select_profile(select_profile(cfg, none), profile) succeeds and equals
\* select_profile(cfg, none), the normalized base without its 'profiles' key,
\* for every cfg and profile: the first call discards the profiles map.
C3_SecondSelectIsBase ==
  (call # <<>> /\ call[1].fn = "select_profile_again") =>
    call[1].res =
      Ok(Without(normalize_project_config(project_file), "profiles"))

\* C3 witness: the second selection ran for profile "dev" on a configuration
\* whose profile "dev" changes the base
C3_Witness ==
  /\ call # <<>>
  /\ call[1].fn = "select_profile_again"
  /\ call[1].profile = "dev"
  /\ select_profile(project_file, "dev") # select_profile(project_file, "")

\* C4: validate_project_config fails for every project configuration in which
\* a toolchain entry carries host_path (with ProjectConfigInvalid, before any
\* other check) or in which the vcpkg block declares host_root,
\* host_binary_cache, container_root or container_binary_cache; and every
\* project configuration, after profile selection, that resolution carries
\* past validation has no host_path in any toolchain entry and none of those
\* vcpkg keys.
C4_NoHostPaths ==
  LET HostKeys == {"host_root", "host_binary_cache", "container_root",
                   "container_binary_cache"}
      ToolchainHostPath(cfg) ==
        \E name \in DOMAIN Get(cfg, "toolchains", <<>>) :
          Has(cfg.toolchains[name], "host_path")
      VcpkgHostKeys(cfg) == (DOMAIN Get(cfg, "vcpkg", <<>>)) \cap HostKeys # {}
  IN  /\ (call # <<>> /\ call[1].fn = "validate_project_config") =>
           /\ ToolchainHostPath(call[1].cfg) =>
                /\ ~call[1].res.ok
                /\ call[1].res.err.kind = "ProjectConfigInvalid"
           /\ VcpkgHostKeys(call[1].cfg) => ~call[1].res.ok
      /\ merged # <<>> =>
           /\ ~ToolchainHostPath(SelectedProject.val)
           /\ ~VcpkgHostKeys(SelectedProject.val)

\* C4 witness: validation rejected a selected configuration with a toolchain
\* entry that carries host_path
C4_Witness ==
  /\ call # <<>>
  /\ call[1].fn = "validate_project_config"
  /\ ~call[1].res.ok
  /\ Has(call[1].cfg, "toolchains")
  /\ \E name \in DOMAIN call[1].cfg.toolchains :
       Has(call[1].cfg.toolchains[name], "host_path")

\* C5 as stated: whenever the build configuration's recorded project_root
\* differs from the detected project root, resolution fails and no effective
\* configuration is produced.
C5_AsStated ==
  (/\ Has(build_file, "project_root")
   /\ ResolvePath(build_file["project_root"]) # root) => effective = <<>>

\* a replacement field other than the four placeholder keys
UnknownField(t) ==
  IsField(t) /\ FieldOf[t] \notin {"project_root", "state_dir", "build_dir",
                                   "config_dir"}

\* the templated strings of a resolution: the merged lists and env values and
\* the vcpkg overlay_triplets
TemplatedStrings ==
  LET M == merged[1]
      vp == Get(SelectedProject.val, "vcpkg", <<>>)
      vb == Get(build_file, "vcpkg", <<>>)
  IN  Range(M.path_prepend) \cup Range(M.cmake_defaults)
      \cup Range(M.winepath_prepend)
      \cup {M.env[i].v : i \in 1..Len(M.env)}
      \cup {M.emulator_env[i].v : i \in 1..Len(M.emulator_env)}
      \cup Range(ListOr(vb, vp, "overlay_triplets"))

\* C6 as stated: when a templated string carries a placeholder other than
\* project_root, state_dir, build_dir and config_dir, no effective
\* configuration is returned and, unless an earlier step of resolution already
\* failed, the failure is PlaceholderUnknown naming such a key and the template
\* that carries it; templates with only the four keys have each replaced by
\* its container-side value.
C6_AsStated ==
  merged # <<>> =>
    LET bad == {t \in TemplatedStrings :
                  \E i \in 1..Len(t) : UnknownField(t[i])}
    IN  /\ bad # {} =>
              /\ effective = <<>>
              /\ pc = "failed"
              /\ err[1].kind \in {"PlaceholderUnknown", "VcpkgHostPathsMissing",
                                  "PathOutsideRoot"}
              /\ err[1].kind = "PlaceholderUnknown" =>
                   /\ err[1].detail.template \in bad
                   /\ \E i \in 1..Len(err[1].detail.template) :
                        /\ UnknownField(err[1].detail.template[i])
                        /\ FieldOf[err[1].detail.template[i]]
                             = err[1].detail.key
        /\ (bad = {} /\ pc = "failed" /\ effective = <<>>) =>
              err[1].kind # "PlaceholderUnknown"
        /\ effective # <<>> =>
              \A i \in 1..Len(merged[1].cmake_defaults) :
                effective[1].cmake_defaults[i] =
                  Substitute(merged[1].cmake_defaults[i],
                             [project_root |-> DEFAULT_CONTAINER_ROOT,
                              state_dir |-> DEFAULT_CONTAINER_ROOT
                                \o RelativeTo(effective[1].state_dir, root),
                              build_dir |-> DEFAULT_CONTAINER_ROOT
                                \o RelativeTo(effective[1].build_dir, root),
                              config_dir |-> effective[1].config_dir])

\* the relative path never climbs above its starting directory
RECURSIVE NoEscape(_, _)
NoEscape(rel, depth) ==
  IF rel = <<>> THEN TRUE
  ELSE IF Head(rel) = ".." THEN depth > 0 /\ NoEscape(Tail(rel), depth - 1)
  ELSE NoEscape(Tail(rel), depth + 1)

\* path can be made relative to root, and relative to root has no '..' escape
UnderRootClaim(path, r) ==
  RelativeToOk(path, r) /\ NoEscape(RelativeTo(path, r), 0)

\* C7 as stated: to_container_path fails with PathOutsideRoot for every host
\* path not under root, returns container_root for root itself, and otherwise
\* returns container_root followed by the root-relative path, so that removing
\* the container_root prefix recovers the root-relative path.
C7_AsStated ==
  (call # <<>> /\ call[1].fn = "to_container_path") =>
    LET host_path == call[1].host_path
        res == call[1].res
        n == Len(DEFAULT_CONTAINER_ROOT)
    IN  /\ ~UnderRootClaim(host_path, root) =>
             ~res.ok /\ res.err.kind = "PathOutsideRoot"
        /\ host_path = root => res = Ok(DEFAULT_CONTAINER_ROOT)
        /\ (UnderRootClaim(host_path, root) /\ host_path # root) =>
             /\ res.ok
             /\ SubSeq(res.val, 1, n) = DEFAULT_CONTAINER_ROOT
             /\ SubSeq(res.val, n + 1, Len(res.val))
                  = RelativeTo(host_path, root)

\* C8 as stated: is_under_root(path, root) is true iff path, made relative to
\* root, contains no '..' escape.
C8_AsStated ==
  (call # <<>> /\ call[1].fn = "is_under_root") =>
    (call[1].res <=> UnderRootClaim(call[1].path, root))

\* C9 as stated: in every effective configuration with a winexe wrapper the
\* wrapper directory is the first entry of path_prepend and occurs nowhere
\* else, and the other entries follow in their merged order.
C9_AsStated ==
  (effective # <<>> /\ effective[1].winexe_wrappers # <<>>) =>
    LET path_prepend == effective[1].path_prepend
        IsOther(entry) == entry # wrapper_dir
        others == SelectSeq(Get(SelectedProject.val, "path_prepend", <<>>)
                              \o Get(build_file, "path_prepend", <<>>),
                            IsOther)
    IN  /\ path_prepend # <<>>
        /\ path_prepend[1] = wrapper_dir
        /\ \A i \in 2..Len(path_prepend) : path_prepend[i] # wrapper_dir
        /\ ExpandedFrom(Tail(path_prepend), others)

\* C10: in a resolution that got past the merges, the vcpkg block is enabled
\* iff the build configuration's vcpkg.enabled is true, or is absent and the
\* project's is true; when enabled and the build configuration lacks host_root
\* or host_binary_cache the resolution fails with VcpkgHostPathsMissing, and
\* it fails so in no other case; when enabled and an effective configuration
\* is produced, host_root and host_binary_cache are the build configuration's
\* and container_root and container_binary_cache are the container root
\* followed by their root-relative paths.
C10_Vcpkg ==
  merged # <<>> =>
    LET vp == Get(SelectedProject.val, "vcpkg", <<>>)
        vb == Get(build_file, "vcpkg", <<>>)
        enabled == IF Has(vb, "enabled") THEN vb["enabled"]
                   ELSE Has(vp, "enabled") /\ vp["enabled"]
        missing == ~Has(vb, "host_root") \/ ~Has(vb, "host_binary_cache")
        missing_failure == /\ ResolveFailed
                           /\ err[1].kind = "VcpkgHostPathsMissing"
    IN  /\ effective # <<>> => effective[1].vcpkg.enabled = enabled
        /\ missing_failure <=> (enabled /\ missing)
        /\ (effective # <<>> /\ enabled) =>
             LET v == effective[1].vcpkg
             IN  /\ v.host_root = vb["host_root"]
                 /\ v.host_binary_cache = vb["host_binary_cache"]
                 /\ v.container_root =
                      DEFAULT_CONTAINER_ROOT
                        \o RelativeTo(vb["host_root"], root)
                 /\ v.container_binary_cache =
                      DEFAULT_CONTAINER_ROOT
                        \o RelativeTo(vb["host_binary_cache"], root)

\* C10 witness: vcpkg is enabled by the project alone, the build configuration
\* has no host paths, and the resolution failed with VcpkgHostPathsMissing
C10_Witness ==
  /\ ResolveFailed
  /\ err[1].kind = "VcpkgHostPathsMissing"
  /\ ~Has(Get(build_file, "vcpkg", <<>>), "enabled")
  /\ ~Has(Get(build_file, "vcpkg", <<>>), "host_root")
  /\ Get(Get(project_file, "vcpkg", <<>>), "enabled", FALSE)

\* C14: merge_winexe_wrappers(project, build), as resolve_effective_config
\* calls it on the normalized wrappers of the selected project configuration
\* and of the build configuration, returns a list with unique names, holding
\* exactly the names of either input, ordered by first occurrence in
\* project-then-build order, each entry being the last entry with its name in
\* that order; the effective configuration holds this list, so it never holds
\* two wrappers with one name.
C14_MergeByName ==
  merged # <<>> =>
    LET Normal(w) == [name |-> w.name, exe |-> w.exe,
                      msvc_env |-> Get(w, "msvc_env", FALSE)]
        project == Get(SelectedProject.val, "winexe_wrappers", <<>>)
        build == Get(build_file, "winexe_wrappers", <<>>)
        all == [i \in 1..(Len(project) + Len(build)) |->
                  IF i <= Len(project) THEN Normal(project[i])
                  ELSE Normal(build[i - Len(project)])]
        First(name) == Min({i \in 1..Len(all) : all[i].name = name})
        Last(name) == CHOOSE i \in 1..Len(all) :
                        /\ all[i].name = name
                        /\ \A j \in (i + 1)..Len(all) : all[j].name # name
        result == merged[1].winexe_wrappers
    IN  /\ \A i, j \in 1..Len(result) :
             result[i].name = result[j].name => i = j
        /\ {result[i].name : i \in 1..Len(result)}
             = {all[i].name : i \in 1..Len(all)}
        /\ \A i, j \in 1..Len(result) :
             i < j => First(result[i].name) < First(result[j].name)
        /\ \A i \in 1..Len(result) : result[i] = all[Last(result[i].name)]
        /\ effective # <<>> => effective[1].winexe_wrappers = result

\* C14 witness: the profile overlay repeats a base wrapper's name, the build
\* configuration names it a third time, and the resolution succeeded
C14_Witness ==
  /\ Resolved
  /\ Has(project_file, "default_profile")
  /\ Len(project_file.winexe_wrappers) = 2
  /\ project_file.winexe_wrappers[1].name
       # project_file.winexe_wrappers[2].name
  /\ Len(project_file.profiles.dev.winexe_wrappers) = 1
  /\ Len(build_file.winexe_wrappers) = 1
  /\ project_file.profiles.dev.winexe_wrappers[1].name
       = project_file.winexe_wrappers[1].name
  /\ build_file.winexe_wrappers[1].name
       = project_file.winexe_wrappers[1].name
  /\ build_file.winexe_wrappers[1] # project_file.winexe_wrappers[1]
  /\ Len(effective[1].winexe_wrappers) = 2

C20_Normalize ==
  LET Legacy == {<<"cmake", "defaults", "cmake_defaults">>,
                 <<"cmake", "generator", "generator">>,
                 <<"cmake", "build_type", "build_type">>,
                 <<"cmake", "build_dir", "build_dir">>,
                 <<"wincross", "winexe_wrappers", "winexe_wrappers">>,
                 <<"wincross", "winepath_prepend", "winepath_prepend">>,
                 <<"wincross", "bin_aliases", "bin_aliases">>,
                 <<"wincross", "emulator_env", "emulator_env">>,
                 <<"path", "prepend", "path_prepend">>}
      Nested(cfg, l) == l[1] \in DOMAIN cfg /\ l[2] \in DOMAIN cfg[l[1]]
  IN  /\ (call # <<>> /\ call[1].fn = "normalize_project_config") =>
           LET cfg == call[1].cfg
               res == call[1].res
           IN  /\ \A key \in DOMAIN cfg :
                    key \in DOMAIN res /\ res[key] = cfg[key]
               /\ \A l \in Legacy :
                    l[3] \notin DOMAIN cfg =>
                      IF Nested(cfg, l)
                      THEN l[3] \in DOMAIN res /\ res[l[3]] = cfg[l[1]][l[2]]
                      ELSE l[3] \notin DOMAIN res
               /\ DOMAIN res \subseteq (DOMAIN cfg) \cup {l[3] : l \in Legacy}
      /\ (call # <<>> /\ call[1].fn = "normalize_project_config_again") =>
           call[1].res = call[1].cfg

\* C20 witness: a configuration with cmake.generator and cmake.defaults nested
\* and the flat generator present was normalized: the flat generator is kept
\* and cmake_defaults is lifted
C20_Witness ==
  /\ call # <<>>
  /\ call[1].fn = "normalize_project_config"
  /\ Has(call[1].cfg, "cmake")
  /\ Has(call[1].cfg.cmake, "generator")
  /\ Has(call[1].cfg.cmake, "defaults")
  /\ Has(call[1].cfg, "generator")
  /\ ~Has(call[1].cfg, "cmake_defaults")
  /\ call[1].res.generator # call[1].cfg.cmake.generator
  /\ call[1].res.cmake_defaults = call[1].cfg.cmake.defaults

\* the flags the defaults of the argument lists stand in for
IsGeneratorFlag(a) == startswith(a, "-G")

IsBuildTypeDefine(a) ==
  startswith(a, "-DCMAKE_BUILD_TYPE=") \/ startswith(a, "-DCMAKE_BUILD_TYPE:")

IsParallelFlag(a) == a = <<"--parallel">> \/ startswith(a, "-j")

IsOutputOnFailure(a) == a = <<"--output-on-failure">>

\* how many arguments of the list are generator flags (and so on)
GeneratorFlags(args) == Len(SelectSeq(args, IsGeneratorFlag))

BuildTypeDefines(args) == Len(SelectSeq(args, IsBuildTypeDefine))

ParallelFlags(args) == Len(SelectSeq(args, IsParallelFlag))

OutputOnFailureFlags(args) == Len(SelectSeq(args, IsOutputOnFailure))

EndsWith(args, tail) ==
  /\ Len(tail) <= Len(args)
  /\ SubSeq(args, Len(args) - Len(tail) + 1, Len(args)) = tail

\* build_args and test_args: the default is added only when extra has no
\* equivalent flag, and extra follows it
C15_BuildAndTestArgs ==
  /\ (call # <<>> /\ call[1].fn = "build_args" /\ call[1].res.ok) =>
       /\ ParallelFlags(call[1].res.val) > ParallelFlags(call[1].extra) =>
            ParallelFlags(call[1].extra) = 0
       /\ EndsWith(call[1].res.val, call[1].extra)
  /\ (call # <<>> /\ call[1].fn = "test_args" /\ call[1].res.ok) =>
       /\ OutputOnFailureFlags(call[1].res.val)
            > OutputOnFailureFlags(call[1].extra) =>
            OutputOnFailureFlags(call[1].extra) = 0
       /\ EndsWith(call[1].res.val, call[1].extra)

\* cmake_args: the build-type define is added only when none is among
\* cmake_defaults + extra, which end the result in that order
C15_CmakeBuildType ==
  (call # <<>> /\ call[1].fn = "cmake_args" /\ call[1].res.ok) =>
    LET combined == call[1].cfg.cmake_defaults \o call[1].extra
    IN  /\ BuildTypeDefines(call[1].res.val) > BuildTypeDefines(combined) =>
             BuildTypeDefines(combined) = 0
        /\ EndsWith(call[1].res.val, combined)

\* C15: each argument list gets its default only when the user gave no
\* equivalent flag and never a second one: cmake_args adds "-G <generator>"
\* only if no generator flag is among cmake_defaults + extra and the
\* build-type define only if none is among them, build_args adds --parallel
\* only if extra has no parallelism flag, test_args adds
\* --output-on-failure only if extra lacks it, and extra ends the result,
\* after the defaults.
C15_AsStated ==
  /\ C15_BuildAndTestArgs
  /\ C15_CmakeBuildType
  /\ (call # <<>> /\ call[1].fn = "cmake_args" /\ call[1].res.ok) =>
       LET combined == call[1].cfg.cmake_defaults \o call[1].extra
       IN  GeneratorFlags(call[1].res.val) > GeneratorFlags(combined) =>
             GeneratorFlags(combined) = 0

\* the steps of a command that generate scripts
GenerationSteps ==
  {"ensure_winexe_wrappers", "ensure_cross_emulator", "ensure_bin_aliases"}

\* the running command has run every generation step
GenerationDone ==
  /\ run.cmd \in {"configure", "build", "test"}
  /\ pc \in {"resolved", "launched", "failed"}
  /\ \A i \in 1..Len(Steps(run.cmd)) :
       Steps(run.cmd)[i] \in GenerationSteps => i < run.step

\* the file at the path has the content
Holds(path, content) == is_file(fs, path) /\ read_text(fs, path) = content

\* every script of the effective configuration has its computed content
ScriptsAsComputed ==
  LET cfg == effective[1]
      aliases_dir == JoinPath(ResolvePath(cfg.build_dir), RelPath(<<"bin">>))
      state_container == to_container_path(ResolvePath(cfg.state_dir), root,
                                           DEFAULT_CONTAINER_ROOT)
  IN  /\ \A i \in 1..Len(cfg.winexe_wrappers) :
           Holds(JoinPath(bin_dir(root), RelPath(cfg.winexe_wrappers[i].name)),
                 with_winepath(
                   render_winexe_wrapper(
                     expand_winexe_template(cfg.winexe_wrappers[i].exe, cfg,
                                            root).val,
                     cfg.winexe_wrappers[i].msvc_env),
                   winepath_env(cfg)))
      /\ Holds(JoinPath(bin_dir(root), RelPath(<<"wincross-emulator">>)),
               with_winepath(render_cross_emulator(cfg.emulator_env),
                             winepath_env(cfg)))
      /\ \A i \in 1..Len(cfg.bin_aliases) :
           Holds(JoinPath(aliases_dir, RelPath(cfg.bin_aliases[i])),
                 render_bin_alias(state_container.val, cfg.bin_aliases[i]))

\* C11: generation is idempotent: when a command has run the generation
\* steps (ensure_winexe_wrappers, ensure_cross_emulator, ensure_bin_aliases)
\* after an earlier command completed them on the same configuration, these
\* steps wrote no file, and after each run every generated script has its
\* computed content.
C11_AsStated ==
  GenerationDone =>
    /\ run.again =>
         \A i \in 1..Len(run.writes) : run.writes[i].step \notin GenerationSteps
    /\ ScriptsAsComputed

\* a wrapper name that is empty or has a directory component
NotBasename(name) == Len(name) # 1

\* the descriptors the running command read, in the selected project
\* configuration and in the build configuration
DeclaredWrappers ==
  (IF SelectedProject.ok
   THEN Get(SelectedProject.val, "winexe_wrappers", <<>>) ELSE <<>>)
  \o Get(build_file, "winexe_wrappers", <<>>)

\* C13: wrapper names cannot escape the generated-scripts directory: a
\* command that read a winexe wrapper descriptor whose name is empty or has
\* a directory component died with WrapperNameInvalid before anything was
\* generated; every file ensure_winexe_wrappers wrote is a direct child of
\* <state_dir>/bin and not a directory; and when it died with
\* WrapperPathIsDirectory the path is a directory and was not written.
C13_NoEscape ==
  (run.cmd \in Commands /\ pc # "idle") =>
    /\ (\E i \in 1..Len(DeclaredWrappers) :
          NotBasename(Get(DeclaredWrappers[i], "name", <<>>))) =>
         /\ pc = "failed"
         /\ err[1].kind = "WrapperNameInvalid"
         /\ effective = <<>>
         /\ run.writes = <<>>
    /\ \A i \in 1..Len(run.writes) :
         run.writes[i].step = "ensure_winexe_wrappers" =>
           /\ Parent(ResolvePath(run.writes[i].path)) = bin_dir(root)
           /\ Len(ResolvePath(run.writes[i].path).parts)
                = Len(bin_dir(root).parts) + 1
           /\ ~is_dir(fs, run.writes[i].path)
    /\ (pc = "failed" /\ err[1].kind = "WrapperPathIsDirectory") =>
         /\ is_dir(fs, err[1].detail)
         /\ ~is_file(fs, err[1].detail)
         /\ \A i \in 1..Len(run.writes) :
              run.writes[i].path # err[1].detail

\* C13 witness: with wrappers cl.exe and "..", ensure_winexe_wrappers wrote
\* <state_dir>/bin/cl.exe and then died on <state_dir>/bin/.., a directory
C13_Witness ==
  /\ run.cmd \in Commands
  /\ pc = "failed"
  /\ err[1].kind = "WrapperPathIsDirectory"
  /\ err[1].detail = JoinPath(bin_dir(root), RelPath(<<"..">>))
  /\ Len(run.writes) = 1
  /\ run.writes[1].path = JoinPath(bin_dir(root), RelPath(<<"cl.exe">>))

\* the errors that are not configuration validation failures: the container
\* exited with a failure, or the handler itself crashed
NotValidation == {"CalledProcessError", "TypeError"}

\* C17: in every run of configure, build, test or shell, a configuration
\* validation failure (config load, profile selection, project-config
\* validation, resolution, wrapper and alias generation checks, the
\* project-root and toolchain checks of the container command) occurs
\* before the first container invocation of the run: a run that died of one
\* had launched no container.
C17_AsStated ==
  (run.cmd \in Commands /\ pc = "failed" /\ err[1].kind \notin NotValidation) =>
    run.launches = 0

\* doctor ran its checks: the configurations were loaded and the profile
\* selected
DoctorRan ==
  /\ run.cmd = "doctor"
  /\ pc \in {"failed", "done"}
  /\ fs.config
  /\ SelectedProject.ok

\* the errors doctor reported
DoctorErrors == IF pc = "failed" THEN err[1].detail ELSE <<>>

\* the toolchains doctor looks at, by name
DoctorToolchains ==
  merge_toolchains(Get(SelectedProject.val, "toolchains", <<>>),
                   Get(build_file, "toolchains", <<>>))

\* the recorded project root, as doctor looks it up
RecordedRoot == JoinPath(fs.cwd, Get(build_file, "project_root", RelPath(<<>>)))

\* the checks the statement lists, violated in this state
ListedViolations ==
  LET vcpkg_build == Get(build_file, "vcpkg", <<>>)
      enabled == vcpkg_enabled(Get(SelectedProject.val, "vcpkg", <<>>),
                               vcpkg_build)
      Missing(key) == ~Has(vcpkg_build, key)
      Gone(key) == ~Missing(key) /\ ~exists_from_cwd(fs, vcpkg_build[key])
  IN  {Violation("docker on PATH", "") : x \in {1} \ {y \in {1} : fs.docker}}
      \cup {Violation("project_root exists", "") :
              x \in {1} \ {y \in {1} : exists(fs, RecordedRoot)}}
      \cup {Violation("project_root is root", "") :
              x \in {1} \ {y \in {1} : ResolvePath(RecordedRoot) = root}}
      \cup {Violation("toolchain host_path set", name) :
              name \in {n \in DOMAIN DoctorToolchains :
                          ~Has(DoctorToolchains[n], "host_path")}}
      \cup {Violation("toolchain host path exists", name) :
              name \in {n \in DOMAIN DoctorToolchains :
                          /\ Has(DoctorToolchains[n], "host_path")
                          /\ ~exists_from_cwd(fs,
                                DoctorToolchains[n]["host_path"])}}
      \cup {Violation("vcpkg host_root set", "") :
              x \in {1} \ {y \in {1} : ~(enabled /\ Missing("host_root"))}}
      \cup {Violation("vcpkg root exists", "") :
              x \in {1} \ {y \in {1} : ~(enabled /\ Gone("host_root"))}}
      \cup {Violation("vcpkg host_binary_cache set", "") :
              x \in {1} \ {y \in {1} :
                             ~(enabled /\ Missing("host_binary_cache"))}}
      \cup {Violation("vcpkg binary cache exists", "") :
              x \in {1} \ {y \in {1} : ~(enabled /\ Gone("host_binary_cache"))}}

\* the check the code makes besides: a toolchain with a host path has a
\* container path
ContainerPathViolations ==
  {Violation("toolchain container_path set", name) :
     name \in {n \in DOMAIN DoctorToolchains :
                 /\ Has(DoctorToolchains[n], "host_path")
                 /\ Get(DoctorToolchains[n], "container_path", <<>>) = <<>>}}

\* doctor reported exactly the violations, each once, and failed iff there
\* is one
Reported(violations) ==
  /\ Range(DoctorErrors) = violations
  /\ Len(DoctorErrors) = Cardinality(violations)
  /\ (pc = "failed") = (violations # {})

\* the step of a doctor command leaves every file and directory as it was
DoctorChangesNothing ==
  (pc = "idle" /\ run'.cmd = "doctor") =>
    UNCHANGED <<project_file, build_file, root, project_cfg_path, fs>>

\* C16 as stated: doctor evaluates every check regardless of earlier
\* failures (docker on PATH; the recorded project root exists; it equals
\* the current root; each toolchain's host path present and existing; with
\* vcpkg enabled, its root and binary cache set and existing), reports one
\* error per violated check, exits with failure iff at least one of these
\* checks is violated, and changes no file or configuration value.
C16_AsStated ==
  /\ [](DoctorRan => Reported(ListedViolations))
  /\ [][DoctorChangesNothing]_vars

\* C16: as C16_AsStated, with the check the statement leaves out: doctor
\* also reports, for each toolchain that has a host path, a missing
\* container path, and fails on it.
C16_Doctor ==
  /\ [](DoctorRan =>
          Reported(ListedViolations \cup ContainerPathViolations))
  /\ [][DoctorChangesNothing]_vars

\* C16 witness: doctor reported docker missing, then that toolchain msvc
\* has no container path and its host path does not exist
C16_Witness ==
  /\ DoctorRan
  /\ DoctorErrors = <<Violation("docker on PATH", ""),
                      Violation("toolchain container_path set", "msvc"),
                      Violation("toolchain host path exists", "msvc")>>

\* a step that changes the build configuration is a successful init
OnlyInitWrites ==
  build_file' # build_file => run'.cmd = "init" /\ pc' = "done"

\* an init that got as far as write_config, on an existing file without
\* --force, fails with ConfigExists and leaves the file as it was
ExistingIsKept ==
  (/\ pc = "idle"
   /\ run'.cmd = "init"
   /\ fs.config
   /\ ~run'.argv.force
   /\ init_config(project_file, run'.argv, root, fs).ok)
  => /\ pc' = "failed"
     /\ err'[1].kind = "ConfigExists"
     /\ build_file' = build_file
     /\ fs'.config

NameEqualsHost(text) ==
  /\ text.eq
  /\ text.name # ""
  /\ Len(text.parts) = 1 \/ text.parts[2] = <<>>

\* the host path a text gives: as written, or under the project root
GivenHostPath(text) ==
  IF text.parts[1].abs THEN text.parts[1]
  ELSE ResolvePath(JoinPath(root, text.parts[1]))

\* what the project configuration declares for the toolchain of a text
Declared(text) == Get(Get(project_file, "toolchains", <<>>), text.name, <<>>)

\* the read_only a text asks for: its mode, else the project's, else false
AskedReadOnly(text) ==
  IF Len(text.parts) > 2 THEN text.parts[3] = "ro"
  ELSE Get(Declared(text), "read_only", FALSE)

\* the texts of an init that are not overridden by a later one of the
\* same name
LastTexts(specs) ==
  {specs[i] : i \in {j \in DOMAIN specs :
                       \A k \in DOMAIN specs : k > j => specs[k].name # specs[j].name}}

\* nothing but a container path can stop this init: every text is well
\* formed and names an existing host path, every toolchain of the project
\* is given one, the project configuration is valid and no build
\* configuration exists
NothingElseWrong(host, specs) ==
  /\ ~host.config
  /\ validate_project_config(project_file).ok
  /\ \A text \in Range(specs) :
       /\ text.eq /\ text.name # ""
       /\ Len(text.parts) > 2 => text.parts[3] \in {"ro", "rw"}
       /\ exists(host, GivenHostPath(text))
  /\ \A name \in DOMAIN Get(project_file, "toolchains", <<>>) :
       \E text \in Range(specs) : text.name = name

\* a successful init recorded every text as the statement says
RecordedAsAsked ==
  (run.cmd = "init" /\ pc = "done") =>
    \A text \in LastTexts(run.argv.toolchain) :
      LET entry == build_file.toolchains[text.name]
      IN  /\ entry.host_path = GivenHostPath(text)
          /\ entry.read_only = AskedReadOnly(text)
          /\ NameEqualsHost(text) =>
               /\ Get(Declared(text), "container_path", <<>>) # <<>>
               /\ entry.container_path = Declared(text).container_path

\* an init with a text name=host succeeds when the project declares the
\* container path and nothing else is wrong, and fails without writing
\* when neither gives one
InitStep ==
  (pc = "idle" /\ run'.cmd = "init") =>
    LET specs == run'.argv.toolchain
        no_container ==
          {text \in Range(specs) :
             /\ NameEqualsHost(text)
             /\ Get(Declared(text), "container_path", <<>>) = <<>>}
    IN  /\ (NothingElseWrong(fs, specs) /\ no_container = {}) => pc' = "done"
        /\ no_container # {} =>
             /\ pc' = "failed"
             /\ build_file' = build_file
             /\ fs'.config = fs.config

\* C18: init with a toolchain spec name=host (no container path) writes a
\* build config whose toolchains[name].host_path is the given host path and
\* whose container_path is the one the project config declares for that
\* name; if neither the spec nor the project config gives a container path
\* init fails and writes no build config; read_only comes from the spec's
\* mode, else the project config, else false.
C18_InitToolchain ==
  /\ []RecordedAsAsked
  /\ [][InitStep]_vars

\* C18 witness: init --toolchain msvc=/tools wrote the container path and
\* the read_only the project declares for msvc
C18_Witness ==
  /\ run.cmd = "init"
  /\ pc = "done"
  /\ run.argv.toolchain = <<[eq |-> TRUE, name |-> "msvc",
                             parts |-> <<AbsPath(<<"tools">>)>>]>>
  /\ fs.config
  /\ build_file.toolchains =
       [msvc |-> [host_path |-> AbsPath(<<"tools">>),
                  container_path |-> <<"opt", "msvc">>,
                  read_only |-> TRUE]]

\* the position of the first occurrence of an entry
FirstIndex(s, x) == CHOOSE i \in DOMAIN s : s[i] = x /\ \A j \in 1..(i - 1) : s[j] # x

\* out has each distinct entry of items exactly once, at the position of
\* its first occurrence
FirstWins(items, out) ==
  /\ Range(out) = Range(items)
  /\ \A i, j \in DOMAIN out :
       i < j => FirstIndex(items, out[i]) < FirstIndex(items, out[j])

\* the entries PATH is assembled from, in order: the effective
\* path_prepend, the built-in toolchain bin directories, each toolchain's
\* path_prepend
PathItems ==
  effective[1].path_prepend
  \o << <<"opt", "msvc", "bin", "x64">>, <<"opt", "msvc", "bin">> >>
  \o Get(Get(effective[1].toolchains, "msvc", <<>>), "path_prepend", <<>>)
  \o Get(Get(effective[1].toolchains, "sdk", <<>>), "path_prepend", <<>>)

BasePath == << <<"usr", "local", "bin">>, <<"usr", "bin">>, <<"bin">> >>

ResolvedPlaceholder(field) ==
  EnvVal(effective[1].env, FieldOf[field])

\* C22 as stated: for every effective configuration, project_root,
\* state_dir, build_dir and config_dir expand to the same container-side
\* value in expand_winexe_template (the mapping of ensure_winexe_wrappers)
\* as in resolve_effective_config.
C22_AsStated ==
  (pc = "resolved" /\ call # <<>> /\ call[1].fn = "expand_winexe_template") =>
    /\ call[1].res.ok
    /\ call[1].res.val =
         ResolvedPlaceholder(Head(call[1].template)) \o Tail(call[1].template)

\* the build directory the statement describes: the build config's value,
\* else the project config's, else <state_dir>/build-windows, a relative
\* value taken under the project root
StatedBuildDir ==
  LET value == IF Has(build_file, "build_dir") THEN build_file.build_dir
               ELSE IF Has(SelectedProject.val, "build_dir")
               THEN SelectedProject.val.build_dir
               ELSE JoinPath(state_dir(root), RelPath(<<"build-windows">>))
  IN  IF value.abs THEN value ELSE ResolvePath(JoinPath(root, value))

\* C23 as stated: the effective build directory is the build config's value
\* if set, else the project config's, else <state_dir>/build-windows, with
\* relative values resolved against the project root; and every effective
\* configuration that resolution returns has its build directory under the
\* project root.
C23_AsStated ==
  Resolved =>
    /\ effective[1].build_dir = StatedBuildDir
    /\ UnderRootClaim(effective[1].build_dir, root)

\* the handler of configure, build or test has its effective configuration
Started == run.cmd \in {"configure", "build", "test"} /\ pc = "resolved"

\* the argument vector of the command's driver
DriverArgs ==
  CASE run.cmd = "configure" -> cmake_args(effective[1], root, run.argv.extra)
    [] run.cmd = "build" -> build_args(effective[1], root, run.argv.extra)
    [] run.cmd = "test" -> test_args(effective[1], root, run.argv.extra)

\* the handler's last run_docker launched the container with it
Invoked ==
  /\ run.cmd \in {"configure", "build", "test"}
  /\ pc = "launched"
  /\ DriverArgs.ok
  /\ invocation[1].command = DriverArgs.val

\* a container launched on the way exited with a failure
ContainerFailed == pc = "failed" /\ err[1].kind = "CalledProcessError"

\* C24 as stated: for every valid project and build configuration, each of
\* configure, build and test eventually invokes the container runtime with
\* the argument vector its driver computes (cmake_args, build_args,
\* test_args) from the effective configuration and the user's extra
\* arguments, unless a container it launched before failed.
C24_AsStated == Started ~> (Invoked \/ ContainerFailed)

\* the build output's bin directory
AliasesDir == JoinPath(ResolvePath(effective[1].build_dir), RelPath(<<"bin">>))

\* C25 as stated: every file that ensure_bin_aliases writes is a direct
\* child of <build_dir>/bin, for every alias name that project-config
\* validation and resolution accept.
C25_AsStated ==
  (run.cmd \in Commands /\ effective # <<>>) =>
    \A i \in 1..Len(run.writes) :
      run.writes[i].step = "ensure_bin_aliases" =>
        /\ Parent(ResolvePath(run.writes[i].path)) = AliasesDir
        /\ Len(ResolvePath(run.writes[i].path).parts) = Len(AliasesDir.parts) + 1

\* C26 as stated: after a successful init, with the project config file
\* unchanged, every toolchain in the effective configuration resolved by a
\* later command has both a host_path and a container_path, so container
\* command construction never fails with a toolchain missing host_path or
\* container_path; also for a project config that declares a
\* default_profile whose overlay adds toolchains.
C26_AsStated ==
  (history.first_init # <<>> /\ run.cmd \in Commands) =>
    /\ effective # <<>> =>
         \A name \in DOMAIN effective[1].toolchains :
           /\ Has(effective[1].toolchains[name], "host_path")
           /\ Get(effective[1].toolchains[name], "container_path", <<>>) # <<>>
    /\ ~(pc = "failed" /\ err[1].kind = "ToolchainPathMissing")

=============================================================================
